---- MODULE Spec2Model ----
(***************************************************************************)
(* Model of the Bakgrunnskart QGIS plugin (bakgrunnskart_plugin.py):       *)
(* the service picker dialog (ServicePickerDialog), the connection-string  *)
(* builders and BakgrunnskartPlugin.run acting on the host project.        *)
(*                                                                         *)
(* Strings of the program are sequences of one-character strings, so that  *)
(* str.replace, str.lower, str.strip, "in" and f-string concatenation are  *)
(* computed as Python computes them.                                       *)
(***************************************************************************)
EXTENDS Integers, Sequences, FiniteSets, TLC

(***************************************************************************)
(* Bounds of the model                                                     *)
(***************************************************************************)
\* longest input string enumerated for the escaping functions
MaxLen == 3
\* number of "add layer" operations (BakgrunnskartPlugin.run) in a behaviour
MaxRuns == 2

(***************************************************************************)
(* Python string primitives                                                *)
(***************************************************************************)
\* the characters used by the model, in ASCII order (for sorted())
Chars == << " ", "%", "&", "'", "(", ")", "/", "0", "1", "2", "3", "4", "5",
            "6", "7", "8", "9", ":", "=", "?", "A", "B", "C", "D", "E", "F",
            "G", "H", "I", "J", "K", "L", "M", "N", "O", "P", "Q", "R", "S",
            "T", "U", "V", "W", "X", "Y", "Z", "[", "]", "_", "a", "b", "c",
            "d", "e", "f", "g", "h", "i", "j", "k", "l", "m", "n", "o", "p",
            "q", "r", "s", "t", "u", "v", "w", "x", "y", "z", "{", "}" >>

UpperCase == << "A", "B", "C", "D", "E", "F", "G", "H", "I", "J", "K", "L", "M",
                "N", "O", "P", "Q", "R", "S", "T", "U", "V", "W", "X", "Y", "Z",
                "Æ", "Ø", "Å" >>

LowerCase == << "a", "b", "c", "d", "e", "f", "g", "h", "i", "j", "k", "l", "m",
                "n", "o", "p", "q", "r", "s", "t", "u", "v", "w", "x", "y", "z",
                "æ", "ø", "å" >>

\* code point order of a character
Ord(c) == CHOOSE i \in 1..Len(Chars) : Chars[i] = c

LowerChar(c) ==
    IF \E i \in 1..Len(UpperCase) : UpperCase[i] = c
    THEN LowerCase[CHOOSE i \in 1..Len(UpperCase) : UpperCase[i] = c]
    ELSE c

UpperChar(c) ==
    IF \E i \in 1..Len(LowerCase) : LowerCase[i] = c
    THEN UpperCase[CHOOSE i \in 1..Len(LowerCase) : LowerCase[i] = c]
    ELSE c

\* str.lower()
Lower(s) == [i \in 1..Len(s) |-> LowerChar(s[i])]

\* str.upper()
Upper(s) == [i \in 1..Len(s) |-> UpperChar(s[i])]

\* str.replace(old, new) for a one-character old: left to right, each
\* occurrence replaced by new, the replacement itself is not rescanned
\* (computed by halves, to keep the evaluation shallow on long URLs)
RECURSIVE Replace(_, _, _)
Replace(s, old, new) ==
    IF s = << >> THEN << >>
    ELSE IF Len(s) = 1 THEN (IF s[1] = old THEN new ELSE s)
    ELSE Replace(SubSeq(s, 1, Len(s) \div 2), old, new)
         \o Replace(SubSeq(s, Len(s) \div 2 + 1, Len(s)), old, new)

\* str.strip(): leading and trailing blanks removed
RECURSIVE LStrip(_)
LStrip(s) ==
    IF s # << >> /\ Head(s) = " " THEN LStrip(Tail(s)) ELSE s

RECURSIVE RStrip(_)
RStrip(s) ==
    IF s # << >> /\ s[Len(s)] = " " THEN RStrip(SubSeq(s, 1, Len(s) - 1)) ELSE s

Strip(s) == RStrip(LStrip(s))

\* Python "q in blob" on strings
Contains(blob, q) ==
    \E i \in 0..(Len(blob) - Len(q)) : SubSeq(blob, i + 1, i + Len(q)) = q

\* " ".join(parts)
RECURSIVE Join(_)
Join(parts) ==
    IF parts = << >> THEN << >>
    ELSE IF Len(parts) = 1 THEN parts[1]
    ELSE parts[1] \o << " " >> \o Join(Tail(parts))

\* str(int) for the small non-negative integers of zoom levels
Digit(d) == Chars[Ord("0") + d]

RECURSIVE IntToStr(_)
IntToStr(n) ==
    IF n < 10 THEN << Digit(n) >> ELSE IntToStr(n \div 10) \o << Digit(n % 10) >>

(***************************************************************************)
(* BakgrunnskartPlugin.encode_url_for_qgis_uri                             *)
(***************************************************************************)
\* the replacements without the percent step
encode_url_no_percent(url) ==
    Replace(Replace(url, "=", << "%", "3", "D" >>),
            "&", << "%", "2", "6" >>)

\* the same three replacements with the percent step last
encode_url_percent_last(url) ==
    Replace(Replace(Replace(url, "=", << "%", "3", "D" >>),
                    "&", << "%", "2", "6" >>),
            "%", << "%", "2", "5" >>)

encode_url_for_qgis_uri(url) ==
    Replace(Replace(Replace(url, "%", << "%", "2", "5" >>),
                    "=", << "%", "3", "D" >>),
            "&", << "%", "2", "6" >>)


(***************************************************************************)
(* Python dict access                                                      *)
(***************************************************************************)
\* dict.get(k) is not None
Has(d, k) == k \in DOMAIN d

\* dict.get(k, dflt)
Get(d, k, dflt) == IF Has(d, k) THEN d[k] ELSE dflt

\* dict.get(k) is truthy (present and not the empty string / list)
Truthy(d, k) == Has(d, k) /\ d[k] # << >>

\* dict.get(k) or ""
GetOr(d, k, dflt) == IF Truthy(d, k) THEN d[k] ELSE dflt

(***************************************************************************)
(* String literals of the program                                          *)
(***************************************************************************)
s_wmts == << "w", "m", "t", "s" >>
s_xyz == << "x", "y", "z" >>
s_wms == << "w", "m", "s" >>
s_vectortile == << "v", "e", "c", "t", "o", "r", "t", "i", "l", "e" >>
s_vt == << "v", "t" >>
s_mvt == << "m", "v", "t" >>
s_arcgis_vt == << "a", "r", "c", "g", "i", "s", "_", "v", "t" >>
s_arcgisvectortile == << "a", "r", "c", "g", "i", "s", "v", "e", "c", "t", "o", "r", "t", "i", "l", "e" >>
s_EPSG25833 == << "E", "P", "S", "G", ":", "2", "5", "8", "3", "3" >>
s_image_png == << "i", "m", "a", "g", "e", "/", "p", "n", "g" >>
s_default == << "d", "e", "f", "a", "u", "l", "t" >>
s_Standard == << "S", "t", "a", "n", "d", "a", "r", "d" >>
s_WMTS_XYZ == << "W", "M", "T", "S", " ", "/", " ", "X", "Y", "Z" >>
s_WMS == << "W", "M", "S" >>
s_WMTS == << "W", "M", "T", "S" >>
s_XYZ == << "X", "Y", "Z" >>
s_Vector_tiles == << "V", "e", "c", "t", "o", "r", " ", "t", "i", "l", "e", "s" >>
s_variant == << "v", "a", "r", "i", "a", "n", "t" >>
s_arcgisvectortileservice == << "a", "r", "c", "g", "i", "s", "v", "e", "c", "t", "o", "r", "t", "i", "l", "e", "s", "e", "r", "v", "i", "c", "e" >>

\* BakgrunnskartPlugin.MAIN_GROUP_NAME
MAIN_GROUP_NAME == << "B", "a", "k", "g", "r", "u", "n", "n", "s", "k", "a", "r", "t" >>

\* ServicePickerDialog.TYPE_ORDER
TYPE_ORDER == << s_wmts, s_wms, s_vectortile >>

\* the placeholder variant {"label": "Standard", "key": "default"}
PlaceholderVariant == [label |-> s_Standard, key |-> s_default]

(***************************************************************************)
(* An offerings dict is a sequence of [key, off] entries in insertion      *)
(* order (Python dicts iterate in insertion order).                        *)
(***************************************************************************)
OffKeys(offerings) == [i \in 1..Len(offerings) |-> offerings[i].key]

OffHas(offerings, k) == \E i \in 1..Len(offerings) : offerings[i].key = k

\* offerings.get(k) or {}
OffGet(offerings, k) ==
    IF OffHas(offerings, k)
    THEN offerings[CHOOSE i \in 1..Len(offerings) : offerings[i].key = k].off
    ELSE [x \in {} |-> << >>]

\* an entry of a variants list that is not a dict (None, a string, ...)
NotADict == [isinstance_dict |-> FALSE]

\* isinstance(v, dict)
IsDict(v) == "isinstance_dict" \notin DOMAIN v

\* (v.get("type") or "").lower()
VType(v) == Lower(GetOr(v, "type", << >>))

\* the grouping with unknown types put in the wms group
GroupOfTypeUnknownAsWms(t) ==
    IF t \in {s_wmts, s_xyz} THEN s_wmts
    ELSE IF t \in {s_vectortile, s_vt, s_mvt, s_arcgis_vt, s_arcgisvectortile}
         THEN s_vectortile
    ELSE s_wms

\* the group a flat variant is put in by _normalize_offerings
GroupOfType(t) ==
    IF t \in {s_wmts, s_xyz} THEN s_wmts
    ELSE IF t = s_wms THEN s_wms
    ELSE IF t \in {s_vectortile, s_vt, s_mvt, s_arcgis_vt, s_arcgisvectortile}
         THEN s_vectortile
    ELSE s_wmts

\* the dict 'out' built from the flat variants list: one entry per non-empty
\* group, non-dict entries skipped
GroupVariants(svc) ==
    LET variants  == GetOr(svc, "variants", << >>)
        wmts_like == SelectSeq(variants,
                        LAMBDA v : IsDict(v) /\ GroupOfType(VType(v)) = s_wmts)
        wms_like  == SelectSeq(variants,
                        LAMBDA v : IsDict(v) /\ GroupOfType(VType(v)) = s_wms)
        vt_like   == SelectSeq(variants,
                        LAMBDA v : IsDict(v) /\ GroupOfType(VType(v)) = s_vectortile)
    IN (IF wmts_like # << >>
        THEN << [key |-> s_wmts,
                 off |-> [label |-> s_WMTS_XYZ, variants |-> wmts_like]] >>
        ELSE << >>)
       \o
       (IF wms_like # << >>
        THEN << [key |-> s_wms,
                 off |-> [label |-> s_WMS, variants |-> wms_like]] >>
        ELSE << >>)
       \o
       (IF vt_like # << >>
        THEN << [key |-> s_vectortile,
                 off |-> [label |-> s_Vector_tiles, variants |-> vt_like]] >>
        ELSE << >>)

\* the offerings synthesized when the grouping is empty
DefaultOfferings ==
    << [key |-> s_wmts,
        off |-> [label |-> s_WMTS_XYZ, variants |-> << PlaceholderVariant >>]] >>

\* the normalization that always regroups the flat list
_normalize_offerings_regroup(svc) ==
    IF GroupVariants(svc) # << >> THEN GroupVariants(svc) ELSE DefaultOfferings

\* the normalization without the synthesized default
_normalize_offerings_no_default(svc) ==
    IF Truthy(svc, "offerings") THEN svc.offerings ELSE GroupVariants(svc)

\* ServicePickerDialog._normalize_offerings
_normalize_offerings(svc) ==
    IF Truthy(svc, "offerings") THEN svc.offerings
    ELSE IF GroupVariants(svc) # << >> THEN GroupVariants(svc)
    ELSE DefaultOfferings

(***************************************************************************)
(* ServicePickerDialog._populate_services: the search blob of a record     *)
(***************************************************************************)
\* type_labels: off.get("label") or tkey, for each offering
TypeLabels(offerings) ==
    [i \in 1..Len(offerings) |-> GetOr(offerings[i].off, "label", offerings[i].key)]

\* v.get("label") or "", for each variant of one offering that is a dict
LabelsOf(variants) ==
    LET dicts == SelectSeq(variants, IsDict)
    IN [i \in 1..Len(dicts) |-> GetOr(dicts[i], "label", << >>)]

\* variant_labels: over all offerings, in order
RECURSIVE VariantLabels(_)
VariantLabels(offerings) ==
    IF offerings = << >> THEN << >>
    ELSE LabelsOf(GetOr(Head(offerings).off, "variants", << >>))
         \o VariantLabels(Tail(offerings))

\* the blob without the final lower()
SearchBlobRaw(svc) ==
    LET offerings == _normalize_offerings(svc)
    IN Join(<< GetOr(svc, "name", << >>),
               GetOr(svc, "description", << >>),
               Join(TypeLabels(offerings)),
               Join(VariantLabels(offerings)) >>)

search_blob(svc) == Lower(SearchBlobRaw(svc))

\* the list items built by _populate_services: service, blob, hidden flag
_populate_services(svcs) ==
    [i \in 1..Len(svcs) |-> [svc |-> i, blob |-> search_blob(svcs[i]), hidden |-> FALSE]]

(***************************************************************************)
(* ServicePickerDialog._apply_filter: visibility part                      *)
(***************************************************************************)
\* the query without the lower()
FilterQueryNoLower(text) == Strip(text)

\* q = (text or "").strip().lower()
FilterQuery(text) == Lower(Strip(text))

\* show = (q in blob) if q else True
Show(blob, q) == IF q # << >> THEN Contains(blob, q) ELSE TRUE

\* the loop hiding items without ever showing one again
ApplyHiddenSticky(its, text) ==
    [i \in 1..Len(its) |->
        [its[i] EXCEPT !.hidden = its[i].hidden \/ ~Show(its[i].blob, FilterQuery(text))]]

\* the setHidden loop over the items of the list
ApplyHidden(its, text) ==
    [i \in 1..Len(its) |->
        [its[i] EXCEPT !.hidden = ~Show(its[i].blob, FilterQuery(text))]]

\* last item that is not hidden, 0 when there is none
LastVisible(its) ==
    IF \E i \in 1..Len(its) : ~its[i].hidden
    THEN CHOOSE i \in 1..Len(its) :
            ~its[i].hidden /\ \A j \in (i + 1)..Len(its) : its[j].hidden
    ELSE 0

\* first item that is not hidden, 0 when there is none
FirstVisible(its) ==
    IF \E i \in 1..Len(its) : ~its[i].hidden
    THEN CHOOSE i \in 1..Len(its) :
            ~its[i].hidden /\ \A j \in 1..(i - 1) : its[j].hidden
    ELSE 0

(***************************************************************************)
(* ServicePickerDialog._populate_types / _populate_variants_for_type       *)
(***************************************************************************)
\* Python string comparison (code point order)
RECURSIVE StrLess(_, _)
StrLess(a, b) ==
    IF b = << >> THEN FALSE
    ELSE IF a = << >> THEN TRUE
    ELSE IF Head(a) # Head(b) THEN Ord(Head(a)) < Ord(Head(b))
    ELSE StrLess(Tail(a), Tail(b))

\* sorted() of a set of distinct strings
RECURSIVE Sorted(_)
Sorted(S) ==
    IF S = {} THEN << >>
    ELSE LET m == CHOOSE x \in S : \A y \in S \ {x} : StrLess(x, y)
         IN << m >> \o Sorted(S \ {m})

Range(s) == {s[i] : i \in 1..Len(s)}

\* the keys with the ones outside TYPE_ORDER left in insertion order
TypeKeysUnsorted(offerings) ==
    SelectSeq(TYPE_ORDER, LAMBDA k : OffHas(offerings, k))
    \o SelectSeq(OffKeys(offerings), LAMBDA k : k \notin Range(TYPE_ORDER))

\* keys = [k for k in TYPE_ORDER if k in offerings] + sorted(the other keys)
TypeKeys(offerings) ==
    SelectSeq(TYPE_ORDER, LAMBDA k : OffHas(offerings, k))
    \o Sorted(Range(OffKeys(offerings)) \ Range(TYPE_ORDER))

\* the 'disabled' flag of an offering ignored
IsDisabledNever(off) == FALSE

\* bool(off.get("disabled"))
IsDisabled(off) == Has(off, "disabled") /\ off.disabled = TRUE

\* the radio buttons of the types box: type_key property and enabled state
TypeButtons(svc) ==
    LET offerings == _normalize_offerings(svc)
        keys == TypeKeys(offerings)
    IN [i \in 1..Len(keys) |->
          [type_key |-> keys[i], enabled |-> ~IsDisabled(OffGet(offerings, keys[i]))]]

\* first_enabled, as an optional value: << >> is None
FirstEnabled(buttons) ==
    IF \E i \in 1..Len(buttons) : buttons[i].enabled
    THEN << buttons[CHOOSE i \in 1..Len(buttons) :
                      buttons[i].enabled
                      /\ \A j \in 1..(i - 1) : ~buttons[j].enabled].type_key >>
    ELSE << >>

\* first key of the list, whether enabled or not
FirstListed(buttons) ==
    IF buttons # << >> THEN << buttons[1].type_key >> ELSE << >>

\* the first listed type selected whether it is enabled or not
_populate_types_first_listed(svc) == FirstListed(TypeButtons(svc))

\* _selected_type_key after _populate_types: "if first_enabled:" is a
\* truthiness test, an empty key is not selected
_populate_types(svc) ==
    LET fe == FirstEnabled(TypeButtons(svc))
    IN IF fe # << >> /\ fe[1] # << >> THEN fe ELSE << >>

\* the variants given a radio button for a type: off.get("variants"), or the
\* placeholder, without the entries that are not dicts
VariantsForType(svc, type_key) ==
    LET offerings == _normalize_offerings(svc)
        off == IF type_key # << >> /\ type_key[1] # << >>
               THEN OffGet(offerings, type_key[1])
               ELSE [x \in {} |-> << >>]
    IN SelectSeq(IF Truthy(off, "variants") THEN off.variants
                 ELSE << PlaceholderVariant >>,
                 IsDict)

\* the variant of the first listed type selected whatever type was asked for
_populate_variants_for_first_type(svc, type_key) ==
    IF VariantsForType(svc, FirstListed(TypeButtons(svc))) # << >>
    THEN << VariantsForType(svc, FirstListed(TypeButtons(svc)))[1] >>
    ELSE << >>

\* _selected_variant after _populate_variants_for_type: the variant of the
\* first button, None when no button was made
_populate_variants_for_type(svc, type_key) ==
    IF VariantsForType(svc, type_key) # << >>
    THEN << VariantsForType(svc, type_key)[1] >>
    ELSE << >>

(***************************************************************************)
(* Layer builders.  A builder returns what it did: the constructor calls   *)
(* made (uri, title, provider), the exception raised (<< >> when none) and *)
(* whether QgsProject.addMapLayer was reached.  valid is the answer of the *)
(* host's isValid() for the constructed layer.                             *)
(***************************************************************************)
\* variant[k] on a missing key: KeyError, whose str() is the quoted key
KeyError(k) == [exc |-> "KeyError", text |-> k, uri |-> << >>]

\* RuntimeError raised with a message that has no URI in it
RuntimeError(text) == [exc |-> "RuntimeError", text |-> text, uri |-> << >>]

\* RuntimeError raised with a message that ends in "URI:\n{uri}"
RuntimeErrorWithUri(text, uri) == [exc |-> "RuntimeError", text |-> text, uri |-> << uri >>]

Raised(e) == [calls |-> << >>, err |-> << e >>, registered |-> FALSE]

\* the same, registering the layer before the validity test is looked at
ConstructRegisterAlways(uri, title, provider, valid, text) ==
    [calls |-> << [uri |-> uri, title |-> title, provider |-> provider] >>,
     err |-> IF valid THEN << >> ELSE << RuntimeErrorWithUri(text, uri) >>,
     registered |-> TRUE]

\* construct the layer, test isValid(), register it with the project
Construct(uri, title, provider, valid, text) ==
    [calls |-> << [uri |-> uri, title |-> title, provider |-> provider] >>,
     err |-> IF valid THEN << >> ELSE << RuntimeErrorWithUri(text, uri) >>,
     registered |-> valid]

\* title = variant.get("title") or variant.get("label") or dflt
TitleOf(variant, dflt) ==
    IF Truthy(variant, "title") THEN variant.title
    ELSE GetOr(variant, "label", dflt)

\* the same fields with styles and tileMatrixSet exchanged
WmtsUriSwapped(variant) ==
    << "c", "r", "s", "=" >> \o Get(variant, "crs", s_EPSG25833)
    \o << "&", "f", "o", "r", "m", "a", "t", "=" >> \o Get(variant, "format", s_image_png)
    \o << "&", "l", "a", "y", "e", "r", "s", "=" >> \o variant.layer
    \o << "&", "t", "i", "l", "e", "M", "a", "t", "r", "i", "x", "S", "e", "t", "=" >> \o variant.tileMatrixSet
    \o << "&", "s", "t", "y", "l", "e", "s", "=" >> \o Get(variant, "style", s_default)
    \o << "&", "u", "r", "l", "=" >> \o encode_url_for_qgis_uri(variant.capabilities)

\* the URI assembled by add_wmts_layer
WmtsUri(variant) ==
    << "c", "r", "s", "=" >> \o Get(variant, "crs", s_EPSG25833)
    \o << "&", "f", "o", "r", "m", "a", "t", "=" >> \o Get(variant, "format", s_image_png)
    \o << "&", "l", "a", "y", "e", "r", "s", "=" >> \o variant.layer
    \o << "&", "s", "t", "y", "l", "e", "s", "=" >> \o Get(variant, "style", s_default)
    \o << "&", "t", "i", "l", "e", "M", "a", "t", "r", "i", "x", "S", "e", "t", "=" >> \o variant.tileMatrixSet
    \o << "&", "u", "r", "l", "=" >> \o encode_url_for_qgis_uri(variant.capabilities)

\* BakgrunnskartPlugin.add_wmts_layer
add_wmts_layer(variant, valid) ==
    IF ~Has(variant, "capabilities") THEN Raised(KeyError("'capabilities'"))
    ELSE IF ~Has(variant, "layer") THEN Raised(KeyError("'layer'"))
    ELSE IF ~Has(variant, "tileMatrixSet") THEN Raised(KeyError("'tileMatrixSet'"))
    ELSE Construct(WmtsUri(variant), TitleOf(variant, s_WMTS), s_wms, valid,
                   "Klarte ikke å opprette WMTS-lag.")

\* the same with the two fields exchanged
WmsLayersLayerFirst(variant) ==
    IF Truthy(variant, "layer") THEN variant.layer
    ELSE Get(variant, "layers", << >>)

\* layers = variant.get("layers") or variant.get("layer")
WmsLayers(variant) ==
    IF Truthy(variant, "layers") THEN variant.layers
    ELSE Get(variant, "layer", << >>)

\* the URI assembled by add_wms_layer
WmsUri(variant) ==
    << "c", "r", "s", "=" >> \o Get(variant, "crs", s_EPSG25833)
    \o << "&", "f", "o", "r", "m", "a", "t", "=" >> \o Get(variant, "format", s_image_png)
    \o << "&", "l", "a", "y", "e", "r", "s", "=" >> \o WmsLayers(variant)
    \o << "&", "s", "t", "y", "l", "e", "s", "=" >> \o Get(variant, "styles", << >>)
    \o << "&", "u", "r", "l", "=" >> \o encode_url_for_qgis_uri(variant.url)

\* the same without the test of layers
add_wms_layer_unchecked(variant, valid) ==
    IF ~Has(variant, "url") THEN Raised(KeyError("'url'"))
    ELSE Construct(WmsUri(variant), TitleOf(variant, s_WMS), s_wms, valid,
                   "Klarte ikke å opprette WMS-lag.")

\* BakgrunnskartPlugin.add_wms_layer
add_wms_layer(variant, valid) ==
    IF ~Has(variant, "url") THEN Raised(KeyError("'url'"))
    ELSE IF WmsLayers(variant) = << >>
    THEN Raised(RuntimeError("WMS-variant mangler 'layers' (eller 'layer')."))
    ELSE Construct(WmsUri(variant), TitleOf(variant, s_WMS), s_wms, valid,
                   "Klarte ikke å opprette WMS-lag.")

\* the same replacements with the percent step last
XyzEscapePercentLast(url_tmpl) ==
    Replace(Replace(Replace(Replace(url_tmpl, "&", << "%", "2", "6" >>),
                            "{", << "%", "7", "B" >>),
                    "}", << "%", "7", "D" >>),
            "%", << "%", "2", "5" >>)

\* the escape of the tile URL template in add_xyz_layer
XyzEscape(url_tmpl) ==
    Replace(Replace(Replace(Replace(url_tmpl, "%", << "%", "2", "5" >>),
                            "&", << "%", "2", "6" >>),
                    "{", << "%", "7", "B" >>),
            "}", << "%", "7", "D" >>)

\* the URI assembled by add_xyz_layer
XyzUri(variant) ==
    << "t", "y", "p", "e", "=", "x", "y", "z", "&", "u", "r", "l", "=" >> \o XyzEscape(variant.xyz_url)
    \o << "&", "z", "m", "i", "n", "=" >> \o IntToStr(Get(variant, "zmin", 0))
    \o << "&", "z", "m", "a", "x", "=" >> \o IntToStr(Get(variant, "zmax", 21))
    \o << "&", "c", "r", "s", "=", "E", "P", "S", "G", "3", "8", "5", "7" >>

\* BakgrunnskartPlugin.add_xyz_layer
add_xyz_layer(variant, valid) ==
    IF ~Has(variant, "xyz_url") THEN Raised(KeyError("'xyz_url'"))
    ELSE Construct(XyzUri(variant), TitleOf(variant, s_XYZ), s_wms, valid,
                   "Klarte ikke å opprette XYZ-lag.")

\* service_url = variant.get("url") or variant.get("service_url")
VtServiceUrl(variant) ==
    IF Truthy(variant, "url") THEN variant.url ELSE Get(variant, "service_url", << >>)

\* style_url = variant.get("style_url") or variant.get("styleUrl")
VtStyleUrl(variant) ==
    IF Truthy(variant, "style_url") THEN variant.style_url
    ELSE Get(variant, "styleUrl", << >>)

\* the same URI with the zoom default of the XYZ builder
VtUriZmax21(variant) ==
    << "s", "e", "r", "v", "i", "c", "e", "T", "y", "p", "e", "=", "a", "r", "c", "g", "i", "s" >>
    \o << "&", "s", "t", "y", "l", "e", "U", "r", "l", "=" >> \o VtStyleUrl(variant)
    \o << "&", "t", "y", "p", "e", "=", "x", "y", "z" >>
    \o << "&", "u", "r", "l", "=" >> \o VtServiceUrl(variant)
    \o << "&", "z", "m", "i", "n", "=" >> \o IntToStr(Get(variant, "zmin", 0))
    \o << "&", "z", "m", "a", "x", "=" >> \o IntToStr(Get(variant, "zmax", 21))

\* the URI assembled by add_vectortile_layer when no 'uri' is given
VtUri(variant) ==
    << "s", "e", "r", "v", "i", "c", "e", "T", "y", "p", "e", "=", "a", "r", "c", "g", "i", "s" >>
    \o << "&", "s", "t", "y", "l", "e", "U", "r", "l", "=" >> \o VtStyleUrl(variant)
    \o << "&", "t", "y", "p", "e", "=", "x", "y", "z" >>
    \o << "&", "u", "r", "l", "=" >> \o VtServiceUrl(variant)
    \o << "&", "z", "m", "i", "n", "=" >> \o IntToStr(Get(variant, "zmin", 0))
    \o << "&", "z", "m", "a", "x", "=" >> \o IntToStr(Get(variant, "zmax", 14))

\* BakgrunnskartPlugin.add_vectortile_layer; hasVT: QgsVectorTileLayer was
\* importable
add_vectortile_layer(variant, valid, hasVT) ==
    IF ~hasVT
    THEN Raised(RuntimeError("Denne QGIS-versjonen har ikke QgsVectorTileLayer tilgjengelig."))
    ELSE IF Truthy(variant, "uri")
    THEN Construct(variant.uri, TitleOf(variant, s_Vector_tiles),
                   Get(variant, "provider", s_arcgisvectortileservice), valid,
                   "Klarte ikke å opprette Vector tile-lag.")
    ELSE IF VtServiceUrl(variant) = << >> \/ VtStyleUrl(variant) = << >>
    THEN Raised(RuntimeError(
           "Vector tile-variant mangler 'uri' eller (service_url/url + style_url/styleUrl)."))
    ELSE Construct(VtUri(variant), TitleOf(variant, s_Vector_tiles),
                   Get(variant, "provider", s_arcgisvectortileservice), valid,
                   "Klarte ikke å opprette Vector tile-lag.")

(***************************************************************************)
(* BakgrunnskartPlugin.run: the part after the dialog was accepted         *)
(***************************************************************************)
\* layer_title = f"{name} [{type_key.upper()}] ({label})"
LayerTitle(service, type_key, variant) ==
    Get(service, "name", MAIN_GROUP_NAME)
    \o << " ", "[" >> \o Upper(type_key) \o << "]", " ", "(" >>
    \o Get(variant, "label", s_variant) \o << ")" >>

\* the copy keeping a title the variant already carries
WithTitleKeepExisting(variant, title) ==
    [k \in (DOMAIN variant) \cup {"title"} |->
        IF k \in DOMAIN variant THEN variant[k] ELSE title]

\* variant = dict(variant); variant["title"] = layer_title
WithTitle(variant, title) ==
    [k \in (DOMAIN variant) \cup {"title"} |->
        IF k = "title" THEN title ELSE variant[k]]

\* the catalog's variant after a run that wrote the title into it
CatalogVariantWrittenInPlace(variant, title) == WithTitle(variant, title)

\* the catalog's variant after variant = dict(variant); variant["title"] = ...:
\* the name is rebound to the copy, the dict of the catalog is not written to
CatalogVariantAfterRun(variant, title) == variant

\* a variants list with the chosen variant as the run left it
ReplaceIn(variants, old, new) ==
    [i \in 1..Len(variants) |-> IF variants[i] = old THEN new ELSE variants[i]]

\* SERVICES after a run: the chosen variant sits in the record's 'offerings'
\* or in its flat 'variants' list, the normalization shares the dicts
CatalogAfterRun(svcs, s, old, new) ==
    [i \in 1..Len(svcs) |->
        IF i # s THEN svcs[i]
        ELSE [k \in DOMAIN svcs[i] |->
                IF k = "variants" THEN ReplaceIn(svcs[i].variants, old, new)
                ELSE IF k = "offerings"
                THEN [j \in 1..Len(svcs[i].offerings) |->
                        [key |-> svcs[i].offerings[j].key,
                         off |-> [f \in DOMAIN svcs[i].offerings[j].off |->
                                    IF f = "variants"
                                    THEN ReplaceIn(svcs[i].offerings[j].off.variants,
                                                   old, new)
                                    ELSE svcs[i].offerings[j].off[f]]]]
                ELSE svcs[i][k]]]

\* the variant types run dispatches to add_vectortile_layer
VectorTileTypes == {s_vectortile, s_vt, s_mvt, s_arcgis_vt}

\* the else branch of the dispatch
UnknownVariantType == Raised(RuntimeError("Ukjent variant-type."))

\* the dispatch with unknown types handed to the WMTS builder
DispatchUnknownAsWmts(service, type_key, variant, valid, hasVT) ==
    LET vtype == VType(variant)
        v == WithTitle(variant, LayerTitle(service, type_key, variant))
    IN IF vtype = s_xyz THEN add_xyz_layer(v, valid)
       ELSE IF vtype = s_wms THEN add_wms_layer(v, valid)
       ELSE IF vtype \in VectorTileTypes THEN add_vectortile_layer(v, valid, hasVT)
       ELSE add_wmts_layer(v, valid)

\* the try block of run: dispatch on the variant type
Dispatch(service, type_key, variant, valid, hasVT) ==
    LET vtype == VType(variant)
        v == WithTitle(variant, LayerTitle(service, type_key, variant))
    IN IF vtype = s_wmts THEN add_wmts_layer(v, valid)
       ELSE IF vtype = s_xyz THEN add_xyz_layer(v, valid)
       ELSE IF vtype = s_wms THEN add_wms_layer(v, valid)
       ELSE IF vtype \in VectorTileTypes THEN add_vectortile_layer(v, valid, hasVT)
       ELSE UnknownVariantType

(***************************************************************************)
(* Catalogs handed to the dialog.  CatalogOfferings has the shape of the   *)
(* built-in SERVICES (an 'offerings' dict per record, a disabled vector    *)
(* tile offering), CatalogFlat the older shape (a flat 'variants' list).   *)
(* The variants cover every field combination the builders branch on.      *)
(***************************************************************************)
WmtsVariants ==
    << [type |-> s_wmts, label |-> << "U", "T", "M", " ", "3", "2", "N" >>,
        capabilities |-> << "h", "t", "t", "p", "s", ":", "/", "/", "x", "?", "a", "=", "1", "&", "b", "=", "2" >>, layer |-> << "s", "j", "o" >>, style |-> << "g", "r", "a", "y" >>,
        format |-> << "i", "m", "a", "g", "e", "/", "j", "p", "e", "g" >>, tileMatrixSet |-> << "u", "t", "m", "3", "2", "n" >>, crs |-> << "E", "P", "S", "G", ":", "2", "5", "8", "3", "2" >>],
       [type |-> << "W", "M", "T", "S" >>, capabilities |-> << "h", "%", "2", "0", "?", "k", "=", "v" >>, layer |-> << "l" >>,
        tileMatrixSet |-> << "t" >>],
       [type |-> s_wmts, label |-> << "n", "o", " ", "c", "a", "p" >>, layer |-> << "l" >>, tileMatrixSet |-> << "t" >>],
       [type |-> s_wmts, label |-> << "n", "o", " ", "t", "m", "s" >>, capabilities |-> << "h" >>, layer |-> << "l" >>],
       [type |-> s_xyz, label |-> << "M", "e", "r", "c", "a", "t", "o", "r" >>, xyz_url |-> << "h", "/", "{", "z", "}", "/", "{", "y", "}", "/", "{", "x", "}", "?", "a", "=", "1", "&", "b", "=", "%", "2" >>],
       [type |-> s_xyz, label |-> << "n", "o", " ", "u", "r", "l" >>, zmin |-> 1, zmax |-> 18] >>

WmsVariants ==
    << [type |-> s_wms, label |-> << "U", "T", "M", " ", "3", "3", "N" >>, url |-> << "h", "?", "s", "=", "w", "&", "r", "=", "g" >>,
        layers |-> << "t", "o", "p", "o" >>, layer |-> << "o", "t", "h", "e", "r" >>, styles |-> << "s", "t" >>,
        format |-> << "i", "m", "a", "g", "e", "/", "j", "p", "e", "g" >>, crs |-> << "E", "P", "S", "G", ":", "2", "5", "8", "3", "2" >>],
       [type |-> s_wms, url |-> << "h", "?", "q", "=", "%", "3", "D" >>, layer |-> << "f", "a", "l", "l", "b", "a", "c", "k" >>],
       [type |-> s_wms, label |-> << "e", "m", "p", "t", "y", " ", "l", "a", "y", "e", "r", "s" >>, url |-> << "h" >>,
        layers |-> << >>, layer |-> << "f", "b" >>],
       [type |-> s_wms, label |-> << "n", "o", " ", "l", "a", "y", "e", "r", "s" >>, url |-> << "h" >>],
       [type |-> s_wms, label |-> << "n", "o", " ", "u", "r", "l" >>, layers |-> << "t", "o", "p", "o" >>],
       [type |-> s_wms, label |-> << "b", "o", "t", "h", " ", "e", "m", "p", "t", "y" >>, url |-> << "h" >>,
        layers |-> << >>, layer |-> << >>] >>

VectorTileVariants ==
    << [type |-> s_vectortile, label |-> << "r", "e", "a", "d", "y" >>, uri |-> << "t", "y", "p", "e", "=", "x", "y", "z", "&", "u", "r", "l", "=", "v" >>],
       [type |-> s_vt, label |-> << "b", "u", "i", "l", "t" >>, url |-> << "h", "t", "t", "p", "s", ":", "/", "/", "s" >>, style_url |-> << "h", "t", "t", "p", "s", ":", "/", "/", "y" >>],
       [type |-> s_mvt, service_url |-> << "s", "2" >>, styleUrl |-> << "y", "2" >>,
        zmin |-> 2, zmax |-> 9, provider |-> << "x", "y", "z", "v", "e", "c", "t", "o", "r", "t", "i", "l", "e", "s" >>],
       [type |-> s_arcgis_vt, label |-> << "n", "o", " ", "s", "t", "y", "l", "e" >>, url |-> << "h", "t", "t", "p", "s", ":", "/", "/", "s" >>] >>

OtherVariants ==
    << [type |-> << "f", "o", "o" >>, label |-> << "F", "o", "o" >>, capabilities |-> << "h" >>, layer |-> << "l" >>,
        tileMatrixSet |-> << "t" >>],
       [label |-> << "u", "n", "t", "y", "p", "e", "d" >>, url |-> << "h" >>, layers |-> << "t", "o", "p", "o" >>],
       [type |-> s_arcgisvectortile, label |-> << "a", "l", "i", "a", "s" >>, uri |-> << "t", "y", "p", "e", "=", "x", "y", "z", "&", "u", "r", "l", "=", "v" >>] >>

\* an XYZ variant with its own zoom range and its own 'title'
XyzZoomVariant ==
    [type |-> s_xyz, label |-> << "Z", "o", "o", "m" >>, title |-> << "O", "w", "n", " ", "t", "i", "t", "l", "e" >>,
     xyz_url |-> << "h", "/", "{", "z", "}", "?", "k", "=", "v" >>, zmin |-> 3, zmax |-> 18]

CatalogOfferings ==
    << [name |-> << "S", "j", "o", "k", "a", "r", "t" >>, description |-> << "S", "e", "a", " ", "<", "b", ">", "c", "h", "a", "r", "t", "<", "/", "b", ">" >>,
        offerings |->
          << [key |-> s_wmts, off |-> [label |-> s_WMTS, variants |-> WmtsVariants]],
             [key |-> s_wms, off |-> [label |-> s_WMS, variants |-> WmsVariants]],
             [key |-> s_vectortile,
              off |-> [label |-> << "V", "e", "c", "t", "o", "r", " ", "t", "i", "l", "e", "s", " ", "(", "k", "o", "m", "m", "e", "r", ")" >>, disabled |-> TRUE,
                       disabled_reason |-> << "K", "o", "m", "m", "e", "r", " ", "s", "e", "n", "e", "r", "e" >>, variants |-> << >>]] >>],
       [name |-> << "T", "o", "p", "o" >>, description |-> << "R", "a", "s", "t", "e", "r" >>,
        offerings |->
          << [key |-> << "z", "z" >>, off |-> [variants |-> << NotADict >> \o OtherVariants]],
             [key |-> s_vectortile,
              off |-> [label |-> s_Vector_tiles, variants |-> VectorTileVariants]],
             [key |-> << "a", "a" >>,
              off |-> [label |-> << "A", "A" >>, disabled |-> TRUE,
                       variants |-> << WmsVariants[1] >>]],
             [key |-> << "n", "d" >>, off |-> [label |-> << "N", "D" >>, variants |-> << NotADict >>]] >>],
       [name |-> << "O", "f", "f" >>, description |-> << >>,
        offerings |->
          << [key |-> s_wms,
              off |-> [label |-> s_WMS, disabled |-> TRUE,
                       variants |-> << WmsVariants[1] >>]] >>] >>

CatalogFlat ==
    << [name |-> << "F", "l", "y" >>, description |-> << "O", "r", "t", "o", "f", "o", "t", "o" >>,
        variants |-> << WmtsVariants[5], [type |-> << "W", "M", "S" >>, label |-> << "U", "p", "p", "e", "r" >>,
                                          url |-> << "h" >>, layers |-> << "t", "o", "p", "o" >>] >>
                     \o << NotADict >> \o OtherVariants
                     \o << VectorTileVariants[3] >>],
       [name |-> << "T", "o", "m" >>, description |-> << "n", "o", "t", "h", "i", "n", "g" >>],
       [description |-> << "M", "i", "x" >>, offerings |-> << >>,
        variants |-> << WmsVariants[2], WmtsVariants[1], XyzZoomVariant >>] >>

Catalogs == {CatalogOfferings, CatalogFlat, << >>}

\* texts typed in the search field
Queries == {<< >>, << " " >>, << "w", "m", "s" >>, << " ", "S", "j", "o" >>, << "U", "T", "M", " ", "3" >>, << "T", "O", "P", "O" >>, << "z", "z", "z" >>}

(***************************************************************************)
(* State                                                                   *)
(***************************************************************************)
VARIABLES
    services,           \* the catalog handed to the dialog (BakgrunnskartPlugin.SERVICES)
    hasVectorTile,      \* QgsVectorTileLayer is not None
    pc,                 \* "idle": no run in progress; "dialog": inside dlg.exec()
    runs,               \* number of runs started
    items,              \* the QListWidget items: service index, search blob, hidden
    searchText,         \* text of the search field
    cur,                \* row of lw.currentItem(), 0 for None
    _selected_service,  \* index into services, 0 for None
    _selected_type_key, \* << >> for None, << key >> otherwise
    _selected_variant,  \* << >> for None, << variant >> otherwise
    typeButtons,        \* radio buttons of type_group
    variantButtons,     \* radio buttons of variant_group (their variant_dict)
    result,             \* QDialog.result(): "none", "accepted", "rejected"
    info,               \* text of the last QMessageBox.information of _accept
    groups,             \* number of groups named MAIN_GROUP_NAME under the root
    createdGroups,      \* number of root.addGroup calls made by the plugin
    mapLayers,          \* layers registered with QgsProject (addMapLayer)
    groupLayers,        \* layers under the main group (main_group.addLayer)
    pre,                \* the project as it was when the current/last run started
    chosen,             \* the selection the last run built from, << >> if none
    ctorCalls,          \* layer constructor calls of the last run
    errorDialogs,       \* QMessageBox.critical texts of the last run
    outcome,            \* "none", "open", "cancelled", "added", "error"
    inp,                \* input of the function under test
    outp                \* its result

dialogVars == << items, searchText, cur, _selected_service, _selected_type_key,
                 _selected_variant, typeButtons, variantButtons, result, info >>

projectVars == << groups, createdGroups, mapLayers, groupLayers >>

runVars == << pre, chosen, ctorCalls, errorDialogs, outcome >>

vars == << services, hasVectorTile, pc, runs, items, searchText, cur,
           _selected_service, _selected_type_key, _selected_variant,
           typeButtons, variantButtons, result, info, groups, createdGroups,
           mapLayers, groupLayers, pre, chosen, ctorCalls, errorDialogs,
           outcome, inp, outp >>

\* the host project as seen through the layer registry
Project == [groups |-> groups, mapLayers |-> mapLayers, groupLayers |-> groupLayers]

\* state before the first run: no dialog yet, the project holds no layer of
\* the plugin and may already have a group of the name
IdleInit ==
    /\ pc = "idle"
    /\ runs = 0
    /\ items = << >>
    /\ searchText = << >>
    /\ cur = 0
    /\ _selected_service = 0
    /\ _selected_type_key = << >>
    /\ _selected_variant = << >>
    /\ typeButtons = << >>
    /\ variantButtons = << >>
    /\ result = "none"
    /\ info = ""
    /\ createdGroups = 0
    /\ mapLayers = {}
    /\ groupLayers = {}
    /\ pre = [groups |-> groups, mapLayers |-> {}, groupLayers |-> {}]
    /\ chosen = << >>
    /\ ctorCalls = << >>
    /\ errorDialogs = << >>
    /\ outcome = "none"

Init ==
    /\ services \in Catalogs
    /\ hasVectorTile \in BOOLEAN
    /\ groups \in {0, 1}
    /\ IdleInit
    /\ inp = << >>
    /\ outp = << >>

(***************************************************************************)
(* Dialog handlers                                                         *)
(***************************************************************************)
\* ServicePickerDialog._on_service_changed for a visible item i
ServiceChanged(i) ==
    LET svc == services[i]
        tk == _populate_types(svc)
    IN /\ _selected_service' = i
       /\ typeButtons' = TypeButtons(svc)
       /\ _selected_type_key' = tk
       /\ variantButtons' = VariantsForType(svc, tk)
       /\ _selected_variant' = _populate_variants_for_type(svc, tk)

\* run up to dlg.exec(): ServicePickerDialog.__init__
RunOpen ==
    /\ pc = "idle"
    /\ runs < MaxRuns
    /\ pc' = "dialog"
    /\ runs' = runs + 1
    /\ items' = _populate_services(services)
    /\ searchText' = << >>
    /\ result' = "none"
    /\ info' = ""
    /\ IF Len(services) > 0
       THEN /\ cur' = 1
            /\ ServiceChanged(1)
       ELSE /\ cur' = 0
            /\ _selected_service' = 0
            /\ _selected_type_key' = << >>
            /\ _selected_variant' = << >>
            /\ typeButtons' = << >>
            /\ variantButtons' = << >>
    /\ pre' = Project
    /\ chosen' = << >>
    /\ ctorCalls' = << >>
    /\ errorDialogs' = << >>
    /\ outcome' = "open"
    /\ UNCHANGED << services, hasVectorTile, projectVars, inp, outp >>

\* the filter without the clearing of types and variants when nothing shows
_apply_filter_keep_selection(text) ==
    /\ pc = "dialog"
    /\ text # searchText
    /\ searchText' = text
    /\ LET its == ApplyHidden(items, text)
           fv == FirstVisible(its)
       IN /\ items' = its
          /\ IF (cur = 0 \/ its[cur].hidden) /\ fv # 0
             THEN /\ cur' = fv
                  /\ ServiceChanged(fv)
             ELSE UNCHANGED << cur, _selected_service, _selected_type_key,
                               _selected_variant, typeButtons, variantButtons >>
    /\ UNCHANGED << services, hasVectorTile, pc, runs, result, info,
                    projectVars, runVars, inp, outp >>

\* ServicePickerDialog._apply_filter (search.textChanged)
_apply_filter(text) ==
    /\ pc = "dialog"
    /\ text # searchText
    /\ searchText' = text
    /\ LET its == ApplyHidden(items, text)
           fv == FirstVisible(its)
       IN /\ items' = its
          /\ IF cur = 0 \/ its[cur].hidden
             THEN IF fv # 0
                  THEN /\ cur' = fv
                       /\ ServiceChanged(fv)
                  ELSE /\ _selected_type_key' = << >>
                       /\ _selected_variant' = << >>
                       /\ typeButtons' = << >>
                       /\ variantButtons' = << >>
                       /\ UNCHANGED << cur, _selected_service >>
             ELSE UNCHANGED << cur, _selected_service, _selected_type_key,
                               _selected_variant, typeButtons, variantButtons >>
    /\ UNCHANGED << services, hasVectorTile, pc, runs, result, info,
                    projectVars, runVars, inp, outp >>

\* the user picks another visible item of the list (lw.currentItemChanged)
_on_service_changed(i) ==
    /\ pc = "dialog"
    /\ i \in 1..Len(items)
    /\ ~items[i].hidden
    /\ i # cur
    /\ cur' = i
    /\ ServiceChanged(i)
    /\ UNCHANGED << services, hasVectorTile, pc, runs, items, searchText,
                    result, info, projectVars, runVars, inp, outp >>

\* the user clicks an enabled type radio button (type_group.buttonClicked)
_on_type_clicked(i) ==
    /\ pc = "dialog"
    /\ i \in 1..Len(typeButtons)
    /\ typeButtons[i].enabled
    /\ LET k == << typeButtons[i].type_key >>
       IN /\ _selected_type_key' = k
          /\ IF _selected_service # 0
             THEN /\ variantButtons' = VariantsForType(services[_selected_service], k)
                  /\ _selected_variant' =
                        _populate_variants_for_type(services[_selected_service], k)
             ELSE UNCHANGED << variantButtons, _selected_variant >>
    /\ UNCHANGED << services, hasVectorTile, pc, runs, items, searchText, cur,
                    _selected_service, typeButtons, result, info,
                    projectVars, runVars, inp, outp >>

\* the user clicks a variant radio button (variant_group.buttonClicked)
_on_variant_clicked(i) ==
    /\ pc = "dialog"
    /\ i \in 1..Len(variantButtons)
    /\ _selected_variant' = << variantButtons[i] >>
    /\ UNCHANGED << services, hasVectorTile, pc, runs, items, searchText, cur,
                    _selected_service, _selected_type_key, typeButtons,
                    variantButtons, result, info, projectVars, runVars, inp, outp >>

\* the message with which _accept refuses, "" when it accepts
AcceptRefusal ==
    IF _selected_service = 0 THEN "Velg en tjeneste først."
    ELSE IF _selected_type_key = << >> \/ _selected_type_key[1] = << >>
    THEN "Velg en tjenestetype først."
    ELSE IF _selected_variant = << >> THEN "Velg et tileset / projeksjon først."
    ELSE ""

\* "Legg til" clicked and _accept refuses: the dialog stays open
AcceptRefused ==
    /\ pc = "dialog"
    /\ AcceptRefusal # ""
    /\ info' = AcceptRefusal
    /\ UNCHANGED << services, hasVectorTile, pc, runs, items, searchText, cur,
                    _selected_service, _selected_type_key, _selected_variant,
                    typeButtons, variantButtons, result, projectVars, runVars,
                    inp, outp >>

\* a run that looks the group up before it asks for the dialog's result
RejectAfterGroup ==
    /\ pc = "dialog"
    /\ result' = "rejected"
    /\ pc' = "idle"
    /\ outcome' = "cancelled"
    /\ groups' = IF groups = 0 THEN 1 ELSE groups
    /\ createdGroups' = IF groups = 0 THEN createdGroups + 1 ELSE createdGroups
    /\ UNCHANGED << services, hasVectorTile, runs, items, searchText, cur,
                    _selected_service, _selected_type_key, _selected_variant,
                    typeButtons, variantButtons, info, mapLayers, groupLayers,
                    pre, chosen, ctorCalls, errorDialogs, inp, outp >>

\* "Avbryt" (or closing the dialog): reject(), run returns
Reject ==
    /\ pc = "dialog"
    /\ result' = "rejected"
    /\ pc' = "idle"
    /\ outcome' = "cancelled"
    /\ UNCHANGED << services, hasVectorTile, runs, items, searchText, cur,
                    _selected_service, _selected_type_key, _selected_variant,
                    typeButtons, variantButtons, info, projectVars,
                    pre, chosen, ctorCalls, errorDialogs, inp, outp >>

\* the selection fields returned whatever the result of the dialog
get_selection_unconditional ==
    << _selected_service, _selected_type_key, _selected_variant >>

\* ServicePickerDialog.get_selection
get_selection ==
    IF result # "accepted" THEN << 0, << >>, << >> >>
    ELSE << _selected_service, _selected_type_key, _selected_variant >>

\* "Legg til" clicked and _accept accepts: the dialog closes and run goes on:
\* get_selection, get_or_create_main_group, the try block, the error dialog
Accept ==
    /\ pc = "dialog"
    /\ AcceptRefusal = ""
    /\ result' = "accepted"
    /\ pc' = "idle"
    /\ \E valid \in BOOLEAN :
         LET service == services[_selected_service]
             type_key == _selected_type_key[1]
             variant == _selected_variant[1]
             r == Dispatch(service, type_key, variant, valid, hasVectorTile)
         IN /\ chosen' = << [service |-> _selected_service, type_key |-> type_key,
                             variant |-> variant] >>
            /\ groups' = IF groups = 0 THEN 1 ELSE groups
            /\ createdGroups' = IF groups = 0 THEN createdGroups + 1 ELSE createdGroups
            /\ ctorCalls' = r.calls
            /\ errorDialogs' = r.err
            /\ mapLayers' = IF r.registered THEN mapLayers \cup {runs} ELSE mapLayers
            /\ groupLayers' = IF r.registered /\ r.err = << >>
                              THEN groupLayers \cup {runs} ELSE groupLayers
            /\ outcome' = IF r.err = << >> THEN "added" ELSE "error"
            /\ services' = CatalogAfterRun(services, _selected_service, variant,
                              CatalogVariantAfterRun(variant,
                                  LayerTitle(service, type_key, variant)))
    /\ UNCHANGED << hasVectorTile, runs, items, searchText, cur,
                    _selected_service, _selected_type_key, _selected_variant,
                    typeButtons, variantButtons, info, pre, inp, outp >>

Next ==
    \/ RunOpen
    \/ \E text \in Queries : _apply_filter(text)
    \/ \E i \in 1..Len(items) : _on_service_changed(i)
    \/ \E i \in 1..Len(typeButtons) : _on_type_clicked(i)
    \/ \E i \in 1..Len(variantButtons) : _on_variant_clicked(i)
    \/ AcceptRefused
    \/ Reject
    \/ Accept

Spec == Init /\ [][Next]_vars

(***************************************************************************)
(* The escaping function on its own: every string over a small alphabet    *)
(***************************************************************************)
EncodeAlphabet == {"%", "=", "&", "{", "}", "a", "2", "5"}

\* the example of the documentation
ExampleUrl == << "h", "t", "t", "p", "s", ":", "/", "/", "x", "?", "a", "=", "1", "&", "b", "=", "2" >>

RECURSIVE StringsUpTo(_)
StringsUpTo(n) ==
    IF n = 0 THEN {<< >>}
    ELSE LET shorter == StringsUpTo(n - 1)
         IN shorter \cup {Append(s, c) : s \in shorter, c \in EncodeAlphabet}

InitEncode ==
    /\ services = << >>
    /\ hasVectorTile = TRUE
    /\ groups = 0
    /\ IdleInit
    /\ inp \in StringsUpTo(MaxLen) \cup {ExampleUrl}
    /\ outp = << >>

\* one call of encode_url_for_qgis_uri
Encode ==
    /\ pc = "idle"
    /\ pc' = "encoded"
    /\ outp' = encode_url_for_qgis_uri(inp)
    /\ UNCHANGED << services, hasVectorTile, runs, dialogVars, projectVars,
                    runVars, inp >>

\* the escape of add_xyz_layer applied to the same string
EscapeXyz ==
    /\ pc = "idle"
    /\ pc' = "escaped"
    /\ outp' = XyzEscape(inp)
    /\ UNCHANGED << services, hasVectorTile, runs, dialogVars, projectVars,
                    runVars, inp >>

NextEncode ==
    \/ Encode
    \/ EscapeXyz

SpecEncode == InitEncode /\ [][NextEncode]_vars

(***************************************************************************)
(* Properties                                                              *)
(***************************************************************************)
\* a run that went past the dialog has ended
Built == pc = "idle" /\ chosen # << >>

\* the variant the last run built from, and its lower-cased type
ChosenVariant == chosen[1].variant

ChosenType ==
    Lower(IF "type" \in DOMAIN ChosenVariant THEN ChosenVariant.type ELSE << >>)

\* a field of the chosen variant is present and not empty
Present(k) == k \in DOMAIN ChosenVariant /\ ChosenVariant[k] # << >>

\* the run registered no layer and put none in the group
NoLayerAdded == mapLayers = pre.mapLayers /\ groupLayers = pre.groupLayers

\* character-by-character substitution: % -> %25, = -> %3D, & -> %26
SubstChar(c) ==
    IF c = "%" THEN << "%", "2", "5" >>
    ELSE IF c = "=" THEN << "%", "3", "D" >>
    ELSE IF c = "&" THEN << "%", "2", "6" >>
    ELSE << c >>

RECURSIVE Subst(_)
Subst(u) == IF u = << >> THEN << >> ELSE SubstChar(Head(u)) \o Subst(Tail(u))

\* C1: after a failed run the host project is the same as before the run
\* (no layer registered, none outside the group, no newly created group).
C1_FailedRunLeavesProjectUnchanged ==
    (pc = "idle" /\ outcome = "error") => Project = pre

\* C2: encode_url_for_qgis_uri(u) is the character-by-character substitution
\* % -> %25, = -> %3D, & -> %26 of u; 'https://x?a=1&b=2' gives
\* 'https://x?a%3D1%26b%3D2'.
C2_EncodeIsSubstitution ==
    pc = "encoded" =>
        /\ outp = Subst(inp)
        /\ inp = ExampleUrl => outp = << "h", "t", "t", "p", "s", ":", "/", "/", "x", "?", "a", "%", "3", "D", "1", "%", "2", "6", "b", "%", "3", "D", "2" >>

\* C2 witness: a string with all three reserved characters was encoded
C2_Witness ==
    pc = "encoded" /\ inp = << "%", "=", "&" >>
    /\ outp = << "%", "2", "5", "%", "3", "D", "%", "2", "6" >>

\* the search blob as the claim describes it: name, description, offering
\* labels and variant labels, joined by blanks, lower-cased
C3_LabelsOnlyBlob(svc) ==
    LET offerings == _normalize_offerings(svc)
        field(d, k) == IF k \in DOMAIN d /\ d[k] # << >> THEN d[k] ELSE << >>
        offLabels == [i \in 1..Len(offerings) |-> field(offerings[i].off, "label")]
    IN Lower(Join(<< field(svc, "name"), field(svc, "description"),
                     Join(offLabels), Join(VariantLabels(offerings)) >>))

\* the same blob with the type key standing in for a missing offering label
C3_Blob(svc) ==
    LET offerings == _normalize_offerings(svc)
        field(d, k) == IF k \in DOMAIN d /\ d[k] # << >> THEN d[k] ELSE << >>
        offLabels == [i \in 1..Len(offerings) |->
                        IF field(offerings[i].off, "label") # << >>
                        THEN offerings[i].off.label ELSE offerings[i].key]
    IN Lower(Join(<< field(svc, "name"), field(svc, "description"),
                     Join(offLabels), Join(VariantLabels(offerings)) >>))

\* C3 as stated: an item is visible iff the lower-cased query is a substring
\* of the blob made of name, description, offering labels, variant labels.
C3_VisibleIffContainsQuery ==
    \A i \in 1..Len(items) :
        ~items[i].hidden <=> Contains(C3_LabelsOnlyBlob(services[i]), Lower(searchText))

\* C3 amended: an item is visible iff the lower-cased query with leading and
\* trailing blanks stripped is a substring of the blob, in which the type
\* key stands in for an offering that has no label.
C3_VisibleIffContainsStrippedQuery ==
    \A i \in 1..Len(items) :
        ~items[i].hidden <=> Contains(C3_Blob(services[i]), Lower(Strip(searchText)))

\* C3 witness: an upper-case query shows one record and hides the others
C3_Witness ==
    /\ pc = "dialog"
    /\ searchText = << "T", "O", "P", "O" >>
    /\ Len(items) = 3
    /\ ~items[2].hidden /\ items[1].hidden /\ items[3].hidden

\* every offering of the service is flagged disabled
AllDisabled(svc) ==
    LET offerings == _normalize_offerings(svc)
    IN \A i \in 1..Len(offerings) :
          "disabled" \in DOMAIN offerings[i].off /\ offerings[i].off.disabled

\* the offering of service s keyed k is flagged disabled
DisabledOffering(s, k) ==
    LET offerings == _normalize_offerings(services[s])
    IN \E i \in 1..Len(offerings) :
          /\ offerings[i].key = k
          /\ "disabled" \in DOMAIN offerings[i].off
          /\ offerings[i].off.disabled

\* C4: _selected_type_key is never the key of a disabled offering, an
\* accepted selection never names one, and when every offering of the
\* service is disabled the type key is unset and _accept refuses.
C4_DisabledNeverSelected ==
    /\ (_selected_service # 0 /\ _selected_type_key # << >>)
          => ~DisabledOffering(_selected_service, _selected_type_key[1])
    /\ chosen # << >> => ~DisabledOffering(chosen[1].service, chosen[1].type_key)
    /\ (pc = "dialog" /\ _selected_service # 0
        /\ AllDisabled(services[_selected_service]))
          => (_selected_type_key = << >> /\ AcceptRefusal # "")
    /\ (_selected_service # 0 /\ AllDisabled(services[_selected_service]))
          => result # "accepted"

\* C4 witness: a service with only disabled offerings is selected and
\* _accept has refused for want of a type
C4_Witness ==
    /\ pc = "dialog"
    /\ _selected_service # 0
    /\ AllDisabled(services[_selected_service])
    /\ _selected_type_key = << >>
    /\ info = "Velg en tjenestetype først."

\* the variant types run dispatches to a builder
C5_RecognizedKinds ==
    {<< "w", "m", "t", "s" >>, << "x", "y", "z" >>, << "w", "m", "s" >>, << "v", "e", "c", "t", "o", "r", "t", "i", "l", "e" >>, << "v", "t" >>, << "m", "v", "t" >>, << "a", "r", "c", "g", "i", "s", "_", "v", "t" >>}

\* C5: an accepted selection whose variant type is not a recognized kind, or
\* is absent, is rejected by run with the unknown-variant-type error shown
\* to the user, without any constructor call or registered layer; the
\* dialog had accepted it.
C5_UnknownTypeRejectedAtBuild ==
    (Built /\ ChosenType \notin C5_RecognizedKinds) =>
        /\ result = "accepted"
        /\ outcome = "error"
        /\ Len(errorDialogs) = 1
        /\ errorDialogs[1].text = "Ukjent variant-type."
        /\ ctorCalls = << >>
        /\ NoLayerAdded

\* C5 witness: a variant without a type went through the dialog and was
\* rejected by run
C5_Witness ==
    /\ Built
    /\ "type" \notin DOMAIN ChosenVariant
    /\ result = "accepted"
    /\ outcome = "error"
    /\ ctorCalls = << >>

\* C6: a WMS variant with neither 'layers' nor 'layer' (absent or empty)
\* ends in a missing-field error raised before any constructor call and
\* adds no layer to the project or the group.
C6_WmsWithoutLayersRejected ==
    (Built /\ ChosenType = << "w", "m", "s" >> /\ ~Present("layers") /\ ~Present("layer")) =>
        /\ outcome = "error"
        /\ ctorCalls = << >>
        /\ Len(errorDialogs) = 1
        /\ errorDialogs[1].text =
              (IF "url" \in DOMAIN ChosenVariant
               THEN "WMS-variant mangler 'layers' (eller 'layer')."
               ELSE "'url'")
        /\ NoLayerAdded

\* C6 witness: the run of a WMS variant with a url and no layer name failed
C6_Witness ==
    /\ Built
    /\ ChosenType = << "w", "m", "s" >>
    /\ "url" \in DOMAIN ChosenVariant
    /\ "layers" \notin DOMAIN ChosenVariant
    /\ "layer" \notin DOMAIN ChosenVariant
    /\ outcome = "error"

\* a required field of the chosen variant is missing
C7_MissingRequired ==
    \/ /\ ChosenType = << "w", "m", "t", "s" >>
       /\ \E k \in {"capabilities", "layer", "tileMatrixSet"} : k \notin DOMAIN ChosenVariant
    \/ ChosenType = << "w", "m", "s" >> /\ "url" \notin DOMAIN ChosenVariant
    \/ ChosenType = << "x", "y", "z" >> /\ "xyz_url" \notin DOMAIN ChosenVariant
    \/ /\ ChosenType \in {<< "v", "e", "c", "t", "o", "r", "t", "i", "l", "e" >>, << "v", "t" >>, << "m", "v", "t" >>, << "a", "r", "c", "g", "i", "s", "_", "v", "t" >>}
       /\ ~Present("uri")
       /\ \/ (~Present("url") /\ ~Present("service_url"))
          \/ (~Present("style_url") /\ ~Present("styleUrl"))

\* C7: when a required field is absent the builder raises an error whose
\* diagnostic includes the offending URI fragment, and no constructor is
\* given an incomplete connection string.
C7_MissingFieldDiagnosticHasUri ==
    (Built /\ C7_MissingRequired) =>
        /\ outcome = "error"
        /\ ctorCalls = << >>
        /\ Len(errorDialogs) = 1
        /\ errorDialogs[1].uri # << >>

\* C8: every failed run shows exactly one error dialog whose text embeds the
\* attempted URI, calls the layer constructor at most once and then ends.
C8_OneErrorDialogWithUri ==
    outcome = "error" =>
        /\ pc = "idle"
        /\ Len(errorDialogs) = 1
        /\ errorDialogs[1].uri # << >>
        /\ Len(ctorCalls) <= 1

\* a field of the chosen variant, or a default when the field is absent
FieldOr(k, dflt) == IF k \in DOMAIN ChosenVariant THEN ChosenVariant[k] ELSE dflt

\* C9: for a WMTS variant with capabilities, layer and tileMatrixSet, the
\* connection string is crs, format, layers, styles, tileMatrixSet, url in
\* that order, with the defaults EPSG:25833, image/png and 'default' and the
\* capabilities URL escaped by the three-step rule.
C9_WmtsConnectionString ==
    (Built /\ ChosenType = << "w", "m", "t", "s" >>
     /\ {"capabilities", "layer", "tileMatrixSet"} \subseteq DOMAIN ChosenVariant) =>
        /\ Len(ctorCalls) = 1
        /\ ctorCalls[1].uri =
              << "c", "r", "s", "=" >> \o FieldOr("crs", << "E", "P", "S", "G", ":", "2", "5", "8", "3", "3" >>)
              \o << "&", "f", "o", "r", "m", "a", "t", "=" >> \o FieldOr("format", << "i", "m", "a", "g", "e", "/", "p", "n", "g" >>)
              \o << "&", "l", "a", "y", "e", "r", "s", "=" >> \o ChosenVariant.layer
              \o << "&", "s", "t", "y", "l", "e", "s", "=" >> \o FieldOr("style", << "d", "e", "f", "a", "u", "l", "t" >>)
              \o << "&", "t", "i", "l", "e", "M", "a", "t", "r", "i", "x", "S", "e", "t", "=" >> \o ChosenVariant.tileMatrixSet
              \o << "&", "u", "r", "l", "=" >> \o Subst(ChosenVariant.capabilities)

\* C9 witness: a WMTS variant without crs, format and style was built
C9_Witness ==
    /\ Built
    /\ ChosenType = << "w", "m", "t", "s" >>
    /\ DOMAIN ChosenVariant = {"type", "capabilities", "layer", "tileMatrixSet"}
    /\ Len(ctorCalls) = 1
    /\ ctorCalls[1].uri =
         << "c", "r", "s", "=", "E", "P", "S", "G", ":", "2", "5", "8", "3", "3", "&", "f", "o", "r", "m", "a", "t", "=", "i", "m", "a", "g", "e", "/", "p", "n", "g", "&", "l", "a", "y", "e", "r", "s", "=", "l", "&", "s", "t", "y", "l", "e", "s", "=", "d", "e", "f", "a", "u", "l", "t", "&", "t", "i", "l", "e", "M", "a", "t", "r", "i", "x", "S", "e", "t", "=", "t", "&", "u", "r", "l", "=", "h", "%", "2", "5", "2", "0", "?", "k", "%", "3", "D", "v" >>

\* C10: for a WMS variant with a url and a layer name, the connection string
\* is crs, format, layers, styles, url in that order; 'layer' stands in only
\* when 'layers' is absent or empty; the defaults are EPSG:25833, image/png
\* and the empty string; the url is escaped by the three-step rule.
C10_WmsConnectionString ==
    (Built /\ ChosenType = << "w", "m", "s" >> /\ "url" \in DOMAIN ChosenVariant
     /\ (Present("layers") \/ Present("layer"))) =>
        /\ Len(ctorCalls) = 1
        /\ ctorCalls[1].uri =
              << "c", "r", "s", "=" >> \o FieldOr("crs", << "E", "P", "S", "G", ":", "2", "5", "8", "3", "3" >>)
              \o << "&", "f", "o", "r", "m", "a", "t", "=" >> \o FieldOr("format", << "i", "m", "a", "g", "e", "/", "p", "n", "g" >>)
              \o << "&", "l", "a", "y", "e", "r", "s", "=" >>
              \o (IF Present("layers") THEN ChosenVariant.layers ELSE ChosenVariant.layer)
              \o << "&", "s", "t", "y", "l", "e", "s", "=" >> \o FieldOr("styles", << >>)
              \o << "&", "u", "r", "l", "=" >> \o Subst(ChosenVariant.url)

\* C10 witness: a WMS variant that has both 'layers' and 'layer' was built
C10_Witness ==
    /\ Built
    /\ ChosenType = << "w", "m", "s" >>
    /\ Present("layers") /\ Present("layer")
    /\ Len(ctorCalls) = 1
    /\ ctorCalls[1].uri =
         << "c", "r", "s", "=", "E", "P", "S", "G", ":", "2", "5", "8", "3", "2", "&", "f", "o", "r", "m", "a", "t", "=", "i", "m", "a", "g", "e", "/", "j", "p", "e", "g", "&", "l", "a", "y", "e", "r", "s", "=", "t", "o", "p", "o", "&", "s", "t", "y", "l", "e", "s", "=", "s", "t", "&", "u", "r", "l", "=", "h", "?", "s", "%", "3", "D", "w", "%", "2", "6", "r", "%", "3", "D", "g" >>

\* character-by-character substitution of the XYZ escape: % -> %25,
\* & -> %26, { -> %7B, } -> %7D, '=' kept
XyzSubstChar(c) ==
    IF c = "%" THEN << "%", "2", "5" >>
    ELSE IF c = "&" THEN << "%", "2", "6" >>
    ELSE IF c = "{" THEN << "%", "7", "B" >>
    ELSE IF c = "}" THEN << "%", "7", "D" >>
    ELSE << c >>

RECURSIVE XyzSubst(_)
XyzSubst(u) == IF u = << >> THEN << >> ELSE XyzSubstChar(Head(u)) \o XyzSubst(Tail(u))

\* C11: for an XYZ variant the connection string is
\* 'type=xyz&url=<escaped xyz_url>&zmin=<zmin>&zmax=<zmax>&crs=EPSG3857',
\* the escape mapping % first, then &, { and }, leaving '=' alone, with
\* zmin 0 and zmax 21 when absent.
C11_XyzConnectionString ==
    (Built /\ ChosenType = << "x", "y", "z" >> /\ "xyz_url" \in DOMAIN ChosenVariant) =>
        /\ Len(ctorCalls) = 1
        /\ ctorCalls[1].uri =
              << "t", "y", "p", "e", "=", "x", "y", "z", "&", "u", "r", "l", "=" >> \o XyzSubst(ChosenVariant.xyz_url)
              \o << "&", "z", "m", "i", "n", "=" >> \o IntToStr(FieldOr("zmin", 0))
              \o << "&", "z", "m", "a", "x", "=" >> \o IntToStr(FieldOr("zmax", 21))
              \o << "&", "c", "r", "s", "=", "E", "P", "S", "G", "3", "8", "5", "7" >>

\* C11 witness: an XYZ variant with {z}, {y}, {x}, '&', '=' and '%' in its
\* template and no zoom range was built
C11_Witness ==
    /\ Built
    /\ ChosenType = << "x", "y", "z" >>
    /\ "zmin" \notin DOMAIN ChosenVariant
    /\ "zmax" \notin DOMAIN ChosenVariant
    /\ Len(ctorCalls) = 1
    /\ ctorCalls[1].uri =
         << "t", "y", "p", "e", "=", "x", "y", "z", "&", "u", "r", "l", "=", "h", "/", "%", "7", "B", "z", "%", "7", "D", "/", "%", "7", "B", "y", "%", "7", "D", "/", "%", "7", "B", "x", "%", "7", "D", "?", "a", "=", "1", "%", "2", "6", "b", "=", "%", "2", "5", "2", "&", "z", "m", "i", "n", "=", "0", "&", "z", "m", "a", "x", "=", "2", "1", "&", "c", "r", "s", "=", "E", "P", "S", "G", "3", "8", "5", "7" >>

\* what the claim says of a vector-tile variant: 'uri' verbatim, else the
\* assembled string when a service url and a style url are present, else an
\* error; the provider defaults to 'arcgisvectortileservice'
C12_VectorTileRule ==
    /\ IF Present("uri")
       THEN Len(ctorCalls) = 1 /\ ctorCalls[1].uri = ChosenVariant.uri
       ELSE IF (Present("url") \/ Present("service_url"))
               /\ (Present("style_url") \/ Present("styleUrl"))
       THEN /\ Len(ctorCalls) = 1
            /\ ctorCalls[1].uri =
                 << "s", "e", "r", "v", "i", "c", "e", "T", "y", "p", "e", "=", "a", "r", "c", "g", "i", "s", "&", "s", "t", "y", "l", "e", "U", "r", "l", "=" >>
                 \o (IF Present("style_url") THEN ChosenVariant.style_url
                     ELSE ChosenVariant.styleUrl)
                 \o << "&", "t", "y", "p", "e", "=", "x", "y", "z", "&", "u", "r", "l", "=" >>
                 \o (IF Present("url") THEN ChosenVariant.url
                     ELSE ChosenVariant.service_url)
                 \o << "&", "z", "m", "i", "n", "=" >> \o IntToStr(FieldOr("zmin", 0))
                 \o << "&", "z", "m", "a", "x", "=" >> \o IntToStr(FieldOr("zmax", 14))
       ELSE outcome = "error" /\ ctorCalls = << >>
    /\ ctorCalls # << >> =>
          ctorCalls[1].provider = FieldOr("provider", << "a", "r", "c", "g", "i", "s", "v", "e", "c", "t", "o", "r", "t", "i", "l", "e", "s", "e", "r", "v", "i", "c", "e" >>)

\* a variant that run hands to add_vectortile_layer
C12_IsVectorTile == ChosenType \in {<< "v", "e", "c", "t", "o", "r", "t", "i", "l", "e" >>, << "v", "t" >>, << "m", "v", "t" >>, << "a", "r", "c", "g", "i", "s", "_", "v", "t" >>}

\* C12 as stated: every vector-tile variant is built by that rule.
C12_VectorTileConnectionString ==
    (Built /\ C12_IsVectorTile) => C12_VectorTileRule

\* C12 amended: the rule holds when the host provides QgsVectorTileLayer;
\* when it does not, the builder raises before it reads the variant and no
\* layer is constructed.
C12_VectorTileConnectionStringIfAvailable ==
    (Built /\ C12_IsVectorTile) =>
        IF hasVectorTile THEN C12_VectorTileRule
        ELSE /\ outcome = "error"
             /\ ctorCalls = << >>
             /\ errorDialogs[1].text =
                  "Denne QGIS-versjonen har ikke QgsVectorTileLayer tilgjengelig."

\* C12 witness: a variant with 'url' and 'style_url' and no zoom range was
\* built with the default provider
C12_Witness ==
    /\ Built
    /\ hasVectorTile
    /\ ChosenType = << "v", "t" >>
    /\ Len(ctorCalls) = 1
    /\ ctorCalls[1].uri =
         << "s", "e", "r", "v", "i", "c", "e", "T", "y", "p", "e", "=", "a", "r", "c", "g", "i", "s", "&", "s", "t", "y", "l", "e", "U", "r", "l", "=", "h", "t", "t", "p", "s", ":", "/", "/", "y", "&", "t", "y", "p", "e", "=", "x", "y", "z", "&", "u", "r", "l", "=", "h", "t", "t", "p", "s", ":", "/", "/", "s", "&", "z", "m", "i", "n", "=", "0", "&", "z", "m", "a", "x", "=", "1", "4" >>
    /\ ctorCalls[1].provider = << "a", "r", "c", "g", "i", "s", "v", "e", "c", "t", "o", "r", "t", "i", "l", "e", "s", "e", "r", "v", "i", "c", "e" >>

(***************************************************************************)
(* The normalization on its own: records of both shapes, every flat list   *)
(* of up to MaxFlat entries                                                *)
(***************************************************************************)
MaxFlat == 2

\* entries of a flat 'variants' list: one per type the grouping tells apart,
\* each with a label of its own, and an entry that is not a dict
FlatEntries ==
    { [type |-> s_wmts, label |-> << "a" >>],
      [type |-> s_xyz, label |-> << "b" >>],
      [type |-> s_wms, label |-> << "c" >>],
      [type |-> << "W", "M", "S" >>, label |-> << "d" >>],
      [type |-> s_vectortile, label |-> << "e" >>],
      [type |-> s_vt, label |-> << "f" >>],
      [type |-> << "M", "v", "t" >>, label |-> << "g" >>],
      [type |-> s_arcgis_vt, label |-> << "h" >>],
      [type |-> s_arcgisvectortile, label |-> << "i" >>],
      [type |-> << "f", "o", "o" >>, label |-> << "j" >>],
      [type |-> << >>, label |-> << "k" >>],
      [label |-> << "l" >>],
      NotADict }

RECURSIVE FlatListsUpTo(_)
FlatListsUpTo(n) ==
    IF n = 0 THEN {<< >>}
    ELSE LET shorter == FlatListsUpTo(n - 1)
         IN shorter \cup {Append(l, v) : l \in shorter, v \in FlatEntries}

\* 'offerings' values of a record: the empty dict and two of the catalog
OfferingsChoices ==
    {<< >>, CatalogOfferings[1].offerings, CatalogOfferings[2].offerings}

NormalizeInputs ==
    {[name |-> << "n" >>]}
    \cup {[variants |-> l] : l \in FlatListsUpTo(MaxFlat)}
    \cup {[offerings |-> o] : o \in OfferingsChoices}
    \cup {[offerings |-> o, variants |-> l] :
             o \in OfferingsChoices, l \in FlatListsUpTo(MaxFlat)}

InitNormalize ==
    /\ services = << >>
    /\ hasVectorTile = TRUE
    /\ groups = 0
    /\ IdleInit
    /\ inp \in NormalizeInputs
    /\ outp = << >>

\* one call of _normalize_offerings
Normalize ==
    /\ pc = "idle"
    /\ pc' = "normalized"
    /\ outp' = _normalize_offerings(inp)
    /\ UNCHANGED << services, hasVectorTile, runs, dialogVars, projectVars,
                    runVars, inp >>

\* a second call, on the record with the first result as its 'offerings'
Renormalize ==
    /\ pc = "normalized"
    /\ pc' = "renormalized"
    /\ inp' = [k \in DOMAIN inp \cup {"offerings"} |->
                  IF k = "offerings" THEN outp ELSE inp[k]]
    /\ outp' = _normalize_offerings(inp')
    /\ UNCHANGED << services, hasVectorTile, runs, dialogVars, projectVars,
                    runVars >>

NextNormalize ==
    \/ Normalize
    \/ Renormalize

SpecNormalize == InitNormalize /\ [][NextNormalize]_vars

\* the flat list of the record under normalization, [] when it has none
C13_Variants == IF "variants" \in DOMAIN inp THEN inp.variants ELSE << >>

\* the group the claim assigns to a variant, by its lower-cased type
C13_GroupOf(v) ==
    LET t == IF "type" \in DOMAIN v THEN Lower(v.type) ELSE << >>
    IN IF t = << "w", "m", "t", "s" >> \/ t = << "x", "y", "z" >> THEN << "w", "m", "t", "s" >>
       ELSE IF t = << "w", "m", "s" >> THEN << "w", "m", "s" >>
       ELSE IF t = << "v", "e", "c", "t", "o", "r", "t", "i", "l", "e" >> \/ t = << "v", "t" >> \/ t = << "m", "v", "t" >> \/ t = << "a", "r", "c", "g", "i", "s", "_", "v", "t" >>
               \/ t = << "a", "r", "c", "g", "i", "s", "v", "e", "c", "t", "o", "r", "t", "i", "l", "e" >> THEN << "v", "e", "c", "t", "o", "r", "t", "i", "l", "e" >>
       ELSE << "w", "m", "t", "s" >>

\* the variants of the flat list that belong to group g, in list order
C13_Members(g) ==
    SelectSeq(C13_Variants, LAMBDA v : IsDict(v) /\ C13_GroupOf(v) = g)

\* C13: for a record without 'offerings' and with a flat 'variants' list,
\* each variant is in exactly the group of its lower-cased type (wmts/xyz ->
\* wmts, wms -> wms, the five vector tile names -> vectortile, anything else
\* -> wmts), only non-empty groups appear, and a group keeps list order.
C13_FlatGrouping ==
    (pc = "normalized" /\ "offerings" \notin DOMAIN inp /\ "variants" \in DOMAIN inp) =>
        /\ \A i \in 1..Len(outp) :
              /\ outp[i].key \in {<< "w", "m", "t", "s" >>, << "w", "m", "s" >>, << "v", "e", "c", "t", "o", "r", "t", "i", "l", "e" >>}
              /\ outp[i].off.variants # << >>
              /\ \A j \in 1..Len(outp) : outp[j].key = outp[i].key => j = i
        /\ \A g \in {<< "w", "m", "t", "s" >>, << "w", "m", "s" >>, << "v", "e", "c", "t", "o", "r", "t", "i", "l", "e" >>} :
              C13_Members(g) # << >> =>
                  /\ OffHas(outp, g)
                  /\ OffGet(outp, g).variants = C13_Members(g)
        /\ (\E i \in 1..Len(C13_Variants) : IsDict(C13_Variants[i])) =>
              \A i \in 1..Len(outp) : C13_Members(outp[i].key) # << >>

\* C13 witness: a flat list with one xyz variant gave only a 'wmts' offering
\* holding that variant
C13_Witness ==
    /\ pc = "normalized"
    /\ inp = [variants |-> << [type |-> << "x", "y", "z" >>, label |-> << "b" >>] >>]
    /\ outp = << [key |-> << "w", "m", "t", "s" >>,
                  off |-> [label |-> << "W", "M", "T", "S", " ", "/", " ", "X", "Y", "Z" >>,
                           variants |-> << [type |-> << "x", "y", "z" >>, label |-> << "b" >>] >>]] >>

C15_DefaultOffering ==
    /\ (pc = "normalized" /\ "offerings" \notin DOMAIN inp
        /\ \A i \in 1..Len(C13_Variants) : ~IsDict(C13_Variants[i])) =>
            outp = << [key |-> << "w", "m", "t", "s" >>,
                       off |-> [label |-> << "W", "M", "T", "S", " ", "/", " ", "X", "Y", "Z" >>,
                                variants |-> << [label |-> << "S", "t", "a", "n", "d", "a", "r", "d" >>,
                                                 key |-> << "d", "e", "f", "a", "u", "l", "t" >>] >>]] >>
    /\ pc \in {"normalized", "renormalized"} => outp # << >>

\* C15 witness: a flat list holding only an entry that is not a dict gave
\* the placeholder offering
C15_Witness ==
    /\ pc = "normalized"
    /\ inp = [variants |-> << NotADict >>]
    /\ Len(outp) = 1
    /\ outp[1].key = << "w", "m", "t", "s" >>
    /\ Len(outp[1].off.variants) = 1

\* C16: the empty query leaves every record visible, and for every query the
\* list holds the records of the catalog once each, in catalog order: the
\* filter only hides items.
C16_FilterKeepsOrder ==
    pc = "dialog" =>
        /\ Len(items) = Len(services)
        /\ \A i \in 1..Len(items) : items[i].svc = i
        /\ searchText = << >> => \A i \in 1..Len(items) : ~items[i].hidden

\* C16 witness: the query was emptied after a query that had hidden every
\* item (the type buttons are still cleared), and all three items show again
C16_Witness ==
    /\ pc = "dialog"
    /\ searchText = << >>
    /\ Len(items) = 3
    /\ typeButtons = << >>
    /\ \A i \in 1..3 : ~items[i].hidden /\ items[i].svc = i

\* C17: the layer of an accepted selection is built with exactly the title
\* '<service name> [<TYPE>] (<variant label or 'variant'>)', <TYPE> being the
\* upper-cased type key, whatever 'title' the catalog variant carries.
C17_ComposedTitle ==
    (Built /\ ctorCalls # << >>) =>
        ctorCalls[1].title =
            (IF "name" \in DOMAIN services[chosen[1].service]
             THEN services[chosen[1].service].name ELSE << "B", "a", "k", "g", "r", "u", "n", "n", "s", "k", "a", "r", "t" >>)
            \o << " ", "[" >> \o Upper(chosen[1].type_key) \o << "]", " ", "(" >>
            \o FieldOr("label", << "v", "a", "r", "i", "a", "n", "t" >>) \o << ")" >>

\* C17 witness: a variant carrying a title of its own was built with the
\* composed title
C17_Witness ==
    /\ Built
    /\ "title" \in DOMAIN ChosenVariant
    /\ ChosenVariant.title = << "O", "w", "n", " ", "t", "i", "t", "l", "e" >>
    /\ Len(ctorCalls) = 1
    /\ ctorCalls[1].title = << "B", "a", "k", "g", "r", "u", "n", "n", "s", "k", "a", "r", "t", " ", "[", "W", "M", "T", "S", "]", " ", "(", "Z", "o", "o", "m", ")" >>

\* C18: the plugin creates at most one group of the name and never a second
\* one beside an existing one; every registered layer is in the group and
\* every grouped layer is registered; a run that ended in an error (an
\* invalid layer included) registered and grouped nothing.
C18_OneGroupHoldsEveryLayer ==
    /\ createdGroups <= 1
    /\ groups <= 1
    /\ createdGroups <= groups
    /\ mapLayers \subseteq groupLayers
    /\ groupLayers \subseteq mapLayers
    /\ mapLayers # {} => groups = 1
    /\ (Built /\ errorDialogs # << >>) => NoLayerAdded

\* C18 witness: two runs added a layer each to the one group the first of
\* them created
C18_Witness ==
    /\ runs = 2
    /\ pc = "idle"
    /\ createdGroups = 1
    /\ groups = 1
    /\ mapLayers = {1, 2}
    /\ groupLayers = {1, 2}

\* C19: get_selection returns (None, None, None) unless the dialog was
\* accepted, and an accepted dialog returns three non-null components.
C19_SelectionOnlyWhenAccepted ==
    /\ result # "accepted" => get_selection = << 0, << >>, << >> >>
    /\ result = "accepted" =>
          /\ get_selection[1] \in 1..Len(services)
          /\ get_selection[2] # << >>
          /\ get_selection[2][1] # << >>
          /\ get_selection[3] # << >>

\* C19 witness: the dialog was rejected with a service, a type and a variant
\* selected, and get_selection returns the triple of None
C19_Witness ==
    /\ result = "rejected"
    /\ _selected_service # 0
    /\ _selected_type_key # << >>
    /\ _selected_variant # << >>
    /\ get_selection = << 0, << >>, << >> >>

\* C20: no step of the dialog and no run, successful or failed, changes a
\* record, an offering or a variant of the catalog; the composed title goes
\* to a copy of the chosen variant.
C20_CatalogNeverMutated == [][services' = services]_vars

\* C20 witness: after two runs, the last of which built a layer with the
\* composed title from a variant without a title, the catalog is the one
\* the plugin started with
C20_Witness ==
    /\ Built
    /\ runs = 2
    /\ outcome = "added"
    /\ services = CatalogOfferings
    /\ ChosenVariant = services[1].offerings[1].off.variants[1]
    /\ "title" \notin DOMAIN ChosenVariant
    /\ ctorCalls[1].title = << "S", "j", "o", "k", "a", "r", "t", " ", "[", "W", "M", "T", "S", "]", " ", "(", "U", "T", "M", " ", "3", "2", "N", ")" >>

\* C21: a run whose dialog was dismissed leaves the host project alone: no
\* group found-or-created, no layer constructed or registered, no error
\* dialog shown.
C21_DismissedRunChangesNothing ==
    (pc = "idle" /\ outcome = "cancelled") =>
        /\ groups = pre.groups
        /\ mapLayers = pre.mapLayers
        /\ groupLayers = pre.groupLayers
        /\ createdGroups <= pre.groups
        /\ chosen = << >>
        /\ ctorCalls = << >>
        /\ errorDialogs = << >>

\* C21 witness: the dialog was dismissed with a complete selection on a
\* project without the group, and the project still has none
C21_Witness ==
    /\ pc = "idle"
    /\ outcome = "cancelled"
    /\ result = "rejected"
    /\ _selected_service # 0
    /\ _selected_type_key # << >>
    /\ _selected_variant # << >>
    /\ groups = 0
    /\ createdGroups = 0
    /\ mapLayers = {}

\* the place of a type key in the list of types: wmts, wms, vectortile, then
\* every other key
C22_Rank(k) ==
    IF k = << "w", "m", "t", "s" >> THEN 1
    ELSE IF k = << "w", "m", "s" >> THEN 2
    ELSE IF k = << "v", "e", "c", "t", "o", "r", "t", "i", "l", "e" >> THEN 3
    ELSE 4

\* the offering of key k of a service is disabled
C22_Disabled(svc, k) ==
    LET off == OffGet(_normalize_offerings(svc), k)
    IN "disabled" \in DOMAIN off /\ off.disabled = TRUE

\* the type buttons list every offering key once, wmts, wms and vectortile
\* first and the other keys in alphabetical order, and the selected type is
\* the first of them that is not disabled, None when all are disabled
C22_TypesListedAndFirstEnabledSelected(svc, buttons, selected) ==
    /\ {buttons[i].type_key : i \in 1..Len(buttons)}
          = {_normalize_offerings(svc)[i].key : i \in 1..Len(_normalize_offerings(svc))}
    /\ Len(buttons) = Len(_normalize_offerings(svc))
    /\ \A i, j \in 1..Len(buttons) :
          i < j =>
             \/ C22_Rank(buttons[i].type_key) < C22_Rank(buttons[j].type_key)
             \/ /\ C22_Rank(buttons[i].type_key) = 4
                /\ C22_Rank(buttons[j].type_key) = 4
                /\ StrLess(buttons[i].type_key, buttons[j].type_key)
    /\ \A i \in 1..Len(buttons) :
          (/\ ~C22_Disabled(svc, buttons[i].type_key)
           /\ \A j \in 1..(i - 1) : C22_Disabled(svc, buttons[j].type_key))
             => selected = << buttons[i].type_key >>
    /\ (\A i \in 1..Len(buttons) : C22_Disabled(svc, buttons[i].type_key))
          <=> selected = << >>

\* C22: whenever a service becomes the selected one, its types are listed as
\* wmts, wms, vectortile, then the other keys alphabetically, and the first
\* type that is not disabled is selected; no type is selected only when every
\* offering of the service is disabled.
C22_TypeOrderAndAutoSelect ==
    [][(cur' # 0 /\ pc' = "dialog" /\ (cur' # cur \/ pc = "idle")) =>
          C22_TypesListedAndFirstEnabledSelected(
              services[cur'], typeButtons', _selected_type_key')]_vars

\* C22 witness: a service whose offerings were written as zz, vectortile, aa,
\* nd, with aa disabled, is listed as vectortile, aa, nd, zz and vectortile
\* is selected
C22_Witness ==
    /\ pc = "dialog"
    /\ services = CatalogOfferings
    /\ cur = 2
    /\ _selected_service = 2
    /\ Len(typeButtons) = 4
    /\ typeButtons[1].type_key = << "v", "e", "c", "t", "o", "r", "t", "i", "l", "e" >>
    /\ typeButtons[2].type_key = << "a", "a" >>
    /\ ~typeButtons[2].enabled
    /\ typeButtons[3].type_key = << "n", "d" >>
    /\ typeButtons[4].type_key = << "z", "z" >>
    /\ _selected_type_key = << << "v", "e", "c", "t", "o", "r", "t", "i", "l", "e" >> >>
    /\ _selected_variant = << VectorTileVariants[1] >>

\* the variants of the offering of key k of a service: the entries of its
\* list that are dicts
C23_VariantsOf(svc, k) ==
    LET off == OffGet(_normalize_offerings(svc), k)
    IN IF "variants" \in DOMAIN off THEN SelectSeq(off.variants, IsDict) ELSE << >>

\* the variant the claim expects selected for type k of a service: the first
\* variant of the offering, the placeholder when it has none
C23_FirstVariant(svc, k) ==
    IF C23_VariantsOf(svc, k) # << >> THEN C23_VariantsOf(svc, k)[1]
    ELSE [label |-> << "S", "t", "a", "n", "d", "a", "r", "d" >>, key |-> << "d", "e", "f", "a", "u", "l", "t" >>]

\* C23: right after every change of the selected service and every change of
\* the selected type, _selected_variant is the first variant of the selected
\* type's offering, or the placeholder variant when that offering has no
\* variants.
C23_VariantResetToFirst ==
    [][(/\ pc' = "dialog"
        /\ _selected_service' # 0
        /\ _selected_type_key' # << >>
        /\ \/ cur' # cur
           \/ pc = "idle"
           \/ _selected_type_key' # _selected_type_key) =>
          _selected_variant' =
              << C23_FirstVariant(services[_selected_service'], _selected_type_key'[1]) >>]_vars

\* C24: in every state of the dialog the selected type key is a key of the
\* normalized offerings of the selected service, and a selected variant is,
\* when a type is selected, one of that offering's variants or the placeholder
\* when the offering has none.
C24_SelectionCoherent ==
    (pc = "dialog" /\ _selected_service # 0) =>
        /\ _selected_type_key # << >> =>
              OffHas(_normalize_offerings(services[_selected_service]),
                     _selected_type_key[1])
        /\ (_selected_type_key # << >> /\ _selected_variant # << >>) =>
              LET vs == C23_VariantsOf(services[_selected_service], _selected_type_key[1])
              IN IF vs # << >>
                 THEN \E i \in 1..Len(vs) : _selected_variant[1] = vs[i]
                 ELSE _selected_variant[1] = [label |-> << "S", "t", "a", "n", "d", "a", "r", "d" >>, key |-> << "d", "e", "f", "a", "u", "l", "t" >>]

\* C24 witness: after a click on the second type and on its second variant
\* the selection is that service's, that type's and that variant
C24_Witness ==
    /\ pc = "dialog"
    /\ services = CatalogOfferings
    /\ _selected_service = 1
    /\ _selected_type_key = << << "w", "m", "s" >> >>
    /\ _selected_variant = << WmsVariants[2] >>

\* a service has an offering that is not disabled
C25_HasEnabledOffering(svc) ==
    \E i \in 1..Len(_normalize_offerings(svc)) :
        ~C22_Disabled(svc, _normalize_offerings(svc)[i].key)

\* C25: whenever the current item of the list is visible, _selected_service
\* is its service and, if the service has an offering that is not disabled,
\* a type and a variant are selected, so the dialog can be accepted.
C25_VisibleCurrentIsAcceptable ==
    (pc = "dialog" /\ cur # 0 /\ ~items[cur].hidden) =>
        /\ _selected_service = cur
        /\ C25_HasEnabledOffering(services[cur]) =>
              (_selected_type_key # << >> /\ _selected_variant # << >>)

\* rows of the items a query leaves visible
C26_Visible(its) == {i \in 1..Len(its) : ~its[i].hidden}

\* C26: a change of the search text under which the current item is visible
\* leaves the current item and the selection as they were; one that hides the
\* current item while some item is visible makes the first visible item in
\* catalog order current and rebuilds the selection for its service.
C26_FilterKeepsSelectionInStep ==
    [][(pc = "dialog" /\ pc' = "dialog" /\ searchText' # searchText /\ cur # 0) =>
          /\ ~items'[cur].hidden =>
                /\ cur' = cur
                /\ _selected_service' = _selected_service
                /\ _selected_type_key' = _selected_type_key
                /\ _selected_variant' = _selected_variant
          /\ (items'[cur].hidden /\ C26_Visible(items') # {}) =>
                /\ cur' \in C26_Visible(items')
                /\ \A i \in C26_Visible(items') : cur' <= i
                /\ _selected_service' = cur'
                /\ C22_TypesListedAndFirstEnabledSelected(
                       services[cur'], typeButtons', _selected_type_key')
                /\ _selected_type_key' # << >> =>
                      _selected_variant' = _populate_variants_for_type(
                                               services[cur'], _selected_type_key')]_vars

\* C26 witness: the query 'TOPO' hid the first item, the second became
\* current and the selection is the one built for it
C26_Witness ==
    /\ pc = "dialog"
    /\ services = CatalogOfferings
    /\ searchText = << "T", "O", "P", "O" >>
    /\ items[1].hidden
    /\ ~items[2].hidden
    /\ cur = 2
    /\ _selected_service = 2
    /\ _selected_type_key = << << "v", "e", "c", "t", "o", "r", "t", "i", "l", "e" >> >>

\* C27: an accepted dialog's selected service is not hidden by the search
\* filter; in particular a state in which every record is hidden is never
\* accepted.
C27_AcceptedServiceVisible ==
    result = "accepted" =>
        /\ _selected_service \in 1..Len(items)
        /\ ~items[_selected_service].hidden
        /\ cur = _selected_service

\* C27 witness: the dialog was accepted under a query that hides another
\* record, with the visible one selected
C27_Witness ==
    /\ result = "accepted"
    /\ searchText = << "T", "O", "P", "O" >>
    /\ items[1].hidden
    /\ _selected_service = 2
    /\ ~items[2].hidden

\* the type strings that _normalize_offerings groups under 'vectortile'
C28_VectorTileNames ==
    {<< "v", "e", "c", "t", "o", "r", "t", "i", "l", "e" >>, << "v", "t" >>, << "m", "v", "t" >>, << "a", "r", "c", "g", "i", "s", "_", "v", "t" >>, << "a", "r", "c", "g", "i", "s", "v", "e", "c", "t", "o", "r", "t", "i", "l", "e" >>}

\* C28: a variant whose lower-cased type is one that the normalization
\* groups under 'vectortile' is handed to add_vectortile_layer by run and
\* does not end in the unknown-variant-type error.
C28_VectorTileTypesDispatched ==
    (Built /\ ChosenType \in C28_VectorTileNames) =>
        \A i \in 1..Len(errorDialogs) :
            errorDialogs[i].text # "Ukjent variant-type."

\* hexadecimal digits
C29_Hex ==
    {"0", "1", "2", "3", "4", "5", "6", "7", "8", "9",
     "a", "b", "c", "d", "e", "f", "A", "B", "C", "D", "E", "F"}

\* the character a percent escape stands for; "?" for every character that
\* is none of % & = { }
C29_Unescaped(h1, h2) ==
    IF h1 = "2" /\ h2 = "5" THEN "%"
    ELSE IF h1 = "2" /\ h2 = "6" THEN "&"
    ELSE IF h1 = "3" /\ h2 \in {"D", "d"} THEN "="
    ELSE IF h1 = "7" /\ h2 \in {"B", "b"} THEN "{"
    ELSE IF h1 = "7" /\ h2 \in {"D", "d"} THEN "}"
    ELSE "?"

\* percent-decoding, once: every %HH becomes its character, a % that is not
\* followed by two hexadecimal digits stays
RECURSIVE C29_PercentDecode(_)
C29_PercentDecode(s) ==
    IF s = << >> THEN << >>
    ELSE IF Head(s) = "%" /\ Len(s) >= 3 /\ s[2] \in C29_Hex /\ s[3] \in C29_Hex
    THEN << C29_Unescaped(s[2], s[3]) >> \o C29_PercentDecode(SubSeq(s, 4, Len(s)))
    ELSE << Head(s) >> \o C29_PercentDecode(Tail(s))

\* C29: percent-decoding once the result of encode_url_for_qgis_uri, or of
\* the XYZ escape, gives back the string that was escaped.
C29_EscapesDecodeBack ==
    pc \in {"encoded", "escaped"} => C29_PercentDecode(outp) = inp

\* C29 witness: a string that is itself a percent escape was encoded and
\* decodes back to itself
C29_Witness ==
    /\ pc = "encoded"
    /\ inp = << "%", "2", "5" >>
    /\ outp = << "%", "2", "5", "2", "5" >>
    /\ C29_PercentDecode(outp) = << "%", "2", "5" >>

(***************************************************************************)
(* BakgrunnskartPlugin.SERVICES, the built-in catalog, field by field      *)
(***************************************************************************)
SERVICES ==
    << [
        name |-> << "F", "j", "e", "l", "l", "s", "k", "y", "g", "g", "e" >>,
        description |-> << "D", "e", "n", "n", "e", " ", "t", "j", "e", "n", "e", "s", "t", "e", "n", " ", "i", "n", "n", "e", "h", "o", "l", "d", "e", "r", " ", "f", "j", "e", "l", "l", "s", "k", "y", "g", "g", "e", "r", ".", " ", "D", "e", "n", " ", "e", "r", " ", "m", "e", "n", "t", " ", "f", "o", "r", " ", "å", " ", "k", "o", "m", "b", "i", "n", "e", "r", "e", "s", " ", "m", "e", "d", " ", "a", "n", "d", "r", "e", " ", "t", "j", "e", "n", "e", "s", "t", "e", "r", ".", " ", "<", "a", " ", "h", "r", "e", "f", "=", "\"", "h", "t", "t", "p", "s", ":", "/", "/", "k", "a", "r", "t", "k", "a", "t", "a", "l", "o", "g", ".", "g", "e", "o", "n", "o", "r", "g", "e", ".", "n", "o", "/", "m", "e", "t", "a", "d", "a", "t", "a", "/", "f", "j", "e", "l", "l", "s", "k", "y", "g", "g", "e", "-", "w", "m", "s", "/", "5", "7", "b", "c", "f", "6", "6", "a", "-", "1", "3", "3", "3", "-", "4", "9", "8", "f", "-", "a", "1", "f", "1", "-", "1", "3", "f", "2", "7", "a", "9", "c", "e", "e", "1", "f", "\"", ">", "S", "e", " ", "m", "e", "r", " ", "i", "n", "f", "o", "r", "m", "a", "s", "j", "o", "n", "<", "/", "a", ">", "<", "b", "r", ">", "<", "b", "r", ">", "&", "c", "o", "p", "y", ";", " ", "<", "a", " ", "h", "r", "e", "f", "=", "\"", "h", "t", "t", "p", "s", ":", "/", "/", "w", "w", "w", ".", "k", "a", "r", "t", "v", "e", "r", "k", "e", "t", ".", "n", "o", "\"", ">", "K", "a", "r", "t", "v", "e", "r", "k", "e", "t", "<", "/", "a", ">", "." >>,
        preview |-> << "p", "r", "e", "v", "i", "e", "w", "s", "/", "s", "h", "a", "d", "o", "w", ".", "p", "n", "g" >>,
        thumb |-> << "p", "r", "e", "v", "i", "e", "w", "s", "/", "s", "h", "a", "d", "o", "w", "_", "t", "h", "u", "m", "b", ".", "p", "n", "g" >>,
        offerings |-> <<
            [key |-> << "w", "m", "s" >>,
             off |-> [
                label |-> << "W", "M", "S" >>,
                variants |-> <<
                    [type |-> << "w", "m", "s" >>,
                     label |-> << "U", "T", "M", " ", "3", "2", "N", " ", "(", "E", "P", "S", "G", ":", "2", "5", "8", "3", "2", ")" >>,
                     url |-> << "h", "t", "t", "p", "s", ":", "/", "/", "w", "m", "s", ".", "g", "e", "o", "n", "o", "r", "g", "e", ".", "n", "o", "/", "s", "k", "w", "m", "s", "1", "/", "w", "m", "s", ".", "f", "j", "e", "l", "l", "s", "k", "y", "g", "g", "e", "?", "s", "e", "r", "v", "i", "c", "e", "=", "w", "m", "s", "&", "r", "e", "q", "u", "e", "s", "t", "=", "g", "e", "t", "c", "a", "p", "a", "b", "i", "l", "i", "t", "i", "e", "s" >>,
                     layers |-> << "f", "j", "e", "l", "l", "s", "k", "y", "g", "g", "e", "_", "w", "m", "s" >>,
                     styles |-> << >>,
                     format |-> << "i", "m", "a", "g", "e", "/", "p", "n", "g" >>,
                     crs |-> << "E", "P", "S", "G", ":", "2", "5", "8", "3", "2" >>],
                    [type |-> << "w", "m", "s" >>,
                     label |-> << "U", "T", "M", " ", "3", "3", "N", " ", "(", "E", "P", "S", "G", ":", "2", "5", "8", "3", "3", ")" >>,
                     url |-> << "h", "t", "t", "p", "s", ":", "/", "/", "w", "m", "s", ".", "g", "e", "o", "n", "o", "r", "g", "e", ".", "n", "o", "/", "s", "k", "w", "m", "s", "1", "/", "w", "m", "s", ".", "f", "j", "e", "l", "l", "s", "k", "y", "g", "g", "e", "?", "s", "e", "r", "v", "i", "c", "e", "=", "w", "m", "s", "&", "r", "e", "q", "u", "e", "s", "t", "=", "g", "e", "t", "c", "a", "p", "a", "b", "i", "l", "i", "t", "i", "e", "s" >>,
                     layers |-> << "f", "j", "e", "l", "l", "s", "k", "y", "g", "g", "e", "_", "w", "m", "s" >>,
                     styles |-> << >>,
                     format |-> << "i", "m", "a", "g", "e", "/", "p", "n", "g" >>,
                     crs |-> << "E", "P", "S", "G", ":", "2", "5", "8", "3", "3" >>],
                    [type |-> << "w", "m", "s" >>,
                     label |-> << "U", "T", "M", " ", "3", "5", "N", " ", "(", "E", "P", "S", "G", ":", "2", "5", "8", "3", "5", ")" >>,
                     url |-> << "h", "t", "t", "p", "s", ":", "/", "/", "w", "m", "s", ".", "g", "e", "o", "n", "o", "r", "g", "e", ".", "n", "o", "/", "s", "k", "w", "m", "s", "1", "/", "w", "m", "s", ".", "f", "j", "e", "l", "l", "s", "k", "y", "g", "g", "e", "?", "s", "e", "r", "v", "i", "c", "e", "=", "w", "m", "s", "&", "r", "e", "q", "u", "e", "s", "t", "=", "g", "e", "t", "c", "a", "p", "a", "b", "i", "l", "i", "t", "i", "e", "s" >>,
                     layers |-> << "f", "j", "e", "l", "l", "s", "k", "y", "g", "g", "e", "_", "w", "m", "s" >>,
                     styles |-> << >>,
                     format |-> << "i", "m", "a", "g", "e", "/", "p", "n", "g" >>,
                     crs |-> << "E", "P", "S", "G", ":", "2", "5", "8", "3", "5" >>],
                    [type |-> << "w", "m", "s" >>,
                     label |-> << "W", "e", "b", "M", "e", "r", "c", "a", "t", "o", "r", " ", "(", "E", "P", "S", "G", ":", "3", "8", "5", "7", ")" >>,
                     url |-> << "h", "t", "t", "p", "s", ":", "/", "/", "w", "m", "s", ".", "g", "e", "o", "n", "o", "r", "g", "e", ".", "n", "o", "/", "s", "k", "w", "m", "s", "1", "/", "w", "m", "s", ".", "f", "j", "e", "l", "l", "s", "k", "y", "g", "g", "e", "?", "s", "e", "r", "v", "i", "c", "e", "=", "w", "m", "s", "&", "r", "e", "q", "u", "e", "s", "t", "=", "g", "e", "t", "c", "a", "p", "a", "b", "i", "l", "i", "t", "i", "e", "s" >>,
                     layers |-> << "f", "j", "e", "l", "l", "s", "k", "y", "g", "g", "e", "_", "w", "m", "s" >>,
                     styles |-> << >>,
                     format |-> << "i", "m", "a", "g", "e", "/", "p", "n", "g" >>,
                     crs |-> << "E", "P", "S", "G", ":", "3", "8", "5", "7" >>],
                    [type |-> << "w", "m", "s" >>,
                     label |-> << "W", "G", "S", "8", "4", " ", "(", "E", "P", "S", "G", ":", "4", "3", "2", "6", ")" >>,
                     url |-> << "h", "t", "t", "p", "s", ":", "/", "/", "w", "m", "s", ".", "g", "e", "o", "n", "o", "r", "g", "e", ".", "n", "o", "/", "s", "k", "w", "m", "s", "1", "/", "w", "m", "s", ".", "f", "j", "e", "l", "l", "s", "k", "y", "g", "g", "e", "?", "s", "e", "r", "v", "i", "c", "e", "=", "w", "m", "s", "&", "r", "e", "q", "u", "e", "s", "t", "=", "g", "e", "t", "c", "a", "p", "a", "b", "i", "l", "i", "t", "i", "e", "s" >>,
                     layers |-> << "f", "j", "e", "l", "l", "s", "k", "y", "g", "g", "e", "_", "w", "m", "s" >>,
                     styles |-> << >>,
                     format |-> << "i", "m", "a", "g", "e", "/", "p", "n", "g" >>,
                     crs |-> << "E", "P", "S", "G", ":", "4", "3", "2", "6" >>]
                >>]]
        >>],
       [
        name |-> << "F", "l", "y", "b", "i", "l", "d", "e", "r", " ", "(", "O", "B", "S", "!", " ", "F", "j", "e", "r", "n", "e", "s", " ", "1", ".", " ", "m", "a", "r", "s", " ", "2", "0", "2", "6", ")" >>,
        description |-> << "O", "r", "t", "o", "f", "o", "t", "o", " ", "(", "N", "o", "r", "g", "e", " ", "i", " ", "b", "i", "l", "d", "e", "r", ")", ".", " ", "<", "a", " ", "h", "r", "e", "f", "=", "\"", "h", "t", "t", "p", "s", ":", "/", "/", "k", "a", "r", "t", "k", "a", "t", "a", "l", "o", "g", ".", "g", "e", "o", "n", "o", "r", "g", "e", ".", "n", "o", "/", "m", "e", "t", "a", "d", "a", "t", "a", "/", "n", "o", "r", "g", "e", "-", "i", "-", "b", "i", "l", "d", "e", "r", "-", "w", "m", "t", "s", "-", "m", "e", "r", "c", "a", "t", "o", "r", "/", "1", "b", "6", "9", "0", "a", "6", "5", "-", "4", "f", "e", "d", "-", "4", "e", "5", "e", "-", "a", "d", "7", "7", "-", "1", "2", "1", "8", "e", "2", "b", "f", "3", "1", "5", "f", "\"", ">", "S", "e", " ", "m", "e", "r", " ", "i", "n", "f", "o", "r", "m", "a", "s", "j", "o", "n", "<", "/", "a", ">", ".", " ", "O", "B", "S", "!", " ", "T", "j", "e", "n", "e", "s", "t", "e", "n", " ", "s", "t", "e", "n", "g", "e", "s", " ", "f", "r", "a", " ", "1", ".", " ", "m", "a", "r", "s", " ", "2", "0", "2", "6", ".", " ", "<", "a", " ", "h", "r", "e", "f", "=", "\"", "h", "t", "t", "p", "s", ":", "/", "/", "r", "e", "g", "i", "s", "t", "e", "r", ".", "g", "e", "o", "n", "o", "r", "g", "e", ".", "n", "o", "/", "v", "a", "r", "s", "l", "e", "r", "/", "n", "o", "r", "g", "e", "-", "i", "-", "b", "i", "l", "d", "e", "r", "-", "w", "m", "t", "s", "-", "m", "e", "r", "c", "a", "t", "o", "r", "/", "f", "0", "d", "d", "6", "0", "1", "a", "-", "5", "4", "d", "9", "-", "4", "0", "f", "1", "-", "b", "f", "e", "b", "-", "3", "a", "8", "f", "6", "7", "2", "c", "c", "d", "6", "c", "\"", ">", "S", "e", " ", "m", "e", "r", " ", "i", "n", "f", "o", "r", "m", "a", "s", "j", "o", "n", "<", "/", "a", ">", "<", "b", "r", ">", "<", "b", "r", ">", "&", "c", "o", "p", "y", ";", " ", "<", "a", " ", "h", "r", "e", "f", "=", "\"", "h", "t", "t", "p", "s", ":", "/", "/", "w", "w", "w", ".", "k", "a", "r", "t", "v", "e", "r", "k", "e", "t", ".", "n", "o", "\"", ">", "K", "a", "r", "t", "v", "e", "r", "k", "e", "t", "<", "/", "a", ">", "." >>,
        preview |-> << "p", "r", "e", "v", "i", "e", "w", "s", "/", "a", "e", "r", "i", "a", "l", ".", "p", "n", "g" >>,
        thumb |-> << "p", "r", "e", "v", "i", "e", "w", "s", "/", "a", "e", "r", "i", "a", "l", "_", "t", "h", "u", "m", "b", ".", "p", "n", "g" >>,
        offerings |-> <<
            [key |-> << "w", "m", "t", "s" >>,
             off |-> [
                label |-> << "W", "M", "T", "S", " ", "/", "X", "Y", "Z" >>,
                variants |-> <<
                    [type |-> << "x", "y", "z" >>,
                     label |-> << "W", "e", "b", "M", "e", "r", "c", "a", "t", "o", "r", " ", "(", "E", "P", "S", "G", ":", "3", "8", "5", "7", ")" >>,
                     xyz_url |-> << "h", "t", "t", "p", "s", ":", "/", "/", "o", "p", "e", "n", "c", "a", "c", "h", "e", ".", "s", "t", "a", "t", "k", "a", "r", "t", ".", "n", "o", "/", "g", "a", "t", "e", "k", "e", "e", "p", "e", "r", "/", "g", "k", "/", "g", "k", ".", "o", "p", "e", "n", "_", "n", "i", "b", "_", "w", "e", "b", "_", "m", "e", "r", "c", "a", "t", "o", "r", "_", "w", "m", "t", "s", "_", "v", "2", "?", "S", "E", "R", "V", "I", "C", "E", "=", "W", "M", "T", "S", "&", "R", "E", "Q", "U", "E", "S", "T", "=", "G", "e", "t", "T", "i", "l", "e", "&", "V", "E", "R", "S", "I", "O", "N", "=", "1", ".", "0", ".", "0", "&", "L", "A", "Y", "E", "R", "=", "N", "i", "b", "c", "a", "c", "h", "e", "_", "w", "e", "b", "_", "m", "e", "r", "c", "a", "t", "o", "r", "_", "v", "2", "&", "S", "T", "Y", "L", "E", "=", "d", "e", "f", "a", "u", "l", "t", "&", "F", "O", "R", "M", "A", "T", "=", "i", "m", "a", "g", "e", "/", "j", "p", "g", "p", "n", "g", "&", "t", "i", "l", "e", "M", "a", "t", "r", "i", "x", "S", "e", "t", "=", "d", "e", "f", "a", "u", "l", "t", "0", "2", "8", "m", "m", "&", "t", "i", "l", "e", "M", "a", "t", "r", "i", "x", "=", "{", "z", "}", "&", "t", "i", "l", "e", "R", "o", "w", "=", "{", "y", "}", "&", "t", "i", "l", "e", "C", "o", "l", "=", "{", "x", "}" >>,
                     zmin |-> 0,
                     zmax |-> 21]
                >>]]
        >>],
       [
        name |-> << "F", "o", "r", "e", "n", "k", "l", "e", "t", " ", "e", "u", "r", "o", "p", "a", "k", "a", "r", "t" >>,
        description |-> << "F", "o", "r", "e", "n", "k", "l", "e", "t", " ", "b", "a", "k", "g", "r", "u", "n", "n", "s", "k", "a", "r", "t", " ", "f", "o", "r", " ", "N", "o", "r", "d", "-", "E", "u", "r", "o", "p", "a", ".", " ", "E", "g", "n", "e", "r", " ", "s", "e", "g", " ", "g", "o", "d", "t", " ", "s", "o", "m", " ", "b", "a", "k", "g", "r", "u", "n", "n", "s", "k", "a", "r", "t", " ", "u", "n", "d", "e", "r", " ", "e", "t", "t", " ", "a", "v", " ", "d", "e", " ", "a", "n", "d", "r", "e", " ", "b", "a", "k", "g", "r", "u", "n", "n", "s", "k", "a", "r", "t", "e", "n", "e", " ", "o", "m", " ", "d", "u", " ", "s", "k", "a", "l", " ", "l", "a", "g", "e", " ", "k", "a", "r", "t", " ", "s", "o", "m", " ", "s", "t", "r", "e", "k", "k", "e", "r", " ", "s", "e", "g", " ", "u", "t", "o", "v", "e", "r", " ", "N", "o", "r", "g", "e", "s", " ", "l", "a", "n", "d", "e", "g", "r", "e", "n", "s", "e", "r", ".", " ", "<", "a", " ", "h", "r", "e", "f", "=", "\"", "h", "t", "t", "p", "s", ":", "/", "/", "k", "a", "r", "t", "k", "a", "t", "a", "l", "o", "g", ".", "g", "e", "o", "n", "o", "r", "g", "e", ".", "n", "o", "/", "m", "e", "t", "a", "d", "a", "t", "a", "/", "e", "u", "r", "o", "p", "a", "k", "a", "r", "t", "-", "f", "o", "r", "e", "n", "k", "l", "e", "t", "-", "w", "m", "s", "/", "4", "e", "9", "0", "4", "a", "4", "9", "-", "e", "2", "d", "c", "-", "4", "0", "9", "9", "-", "b", "2", "7", "1", "-", "9", "4", "6", "3", "b", "d", "a", "b", "7", "8", "4", "6", "\"", ">", "S", "e", " ", "m", "e", "r", " ", "i", "n", "f", "o", "r", "m", "a", "s", "j", "o", "n", "<", "/", "a", ">", "<", "b", "r", ">", "<", "b", "r", ">", "&", "c", "o", "p", "y", ";", " ", "<", "a", " ", "h", "r", "e", "f", "=", "\"", "h", "t", "t", "p", "s", ":", "/", "/", "w", "w", "w", ".", "k", "a", "r", "t", "v", "e", "r", "k", "e", "t", ".", "n", "o", "\"", ">", "K", "a", "r", "t", "v", "e", "r", "k", "e", "t", "<", "/", "a", ">", "." >>,
        preview |-> << "p", "r", "e", "v", "i", "e", "w", "s", "/", "e", "u", "r", "o", "p", "e", ".", "p", "n", "g" >>,
        thumb |-> << "p", "r", "e", "v", "i", "e", "w", "s", "/", "e", "u", "r", "o", "p", "e", "_", "t", "h", "u", "m", "b", ".", "p", "n", "g" >>,
        offerings |-> <<
            [key |-> << "w", "m", "t", "s" >>,
             off |-> [
                label |-> << "W", "M", "T", "S" >>,
                variants |-> <<
                    [type |-> << "w", "m", "t", "s" >>,
                     label |-> << "U", "T", "M", " ", "3", "2", "N", " ", "(", "E", "P", "S", "G", ":", "2", "5", "8", "3", "2", ")" >>,
                     capabilities |-> << "h", "t", "t", "p", "s", ":", "/", "/", "c", "a", "c", "h", "e", ".", "k", "a", "r", "t", "v", "e", "r", "k", "e", "t", ".", "n", "o", "/", "v", "1", "/", "s", "e", "r", "v", "i", "c", "e", "?", "s", "e", "r", "v", "i", "c", "e", "=", "W", "M", "T", "S", "&", "r", "e", "q", "u", "e", "s", "t", "=", "G", "e", "t", "C", "a", "p", "a", "b", "i", "l", "i", "t", "i", "e", "s" >>,
                     layer |-> << "e", "u", "r", "o", "p", "a", "F", "o", "r", "e", "n", "k", "l", "e", "t" >>,
                     style |-> << "d", "e", "f", "a", "u", "l", "t" >>,
                     format |-> << "i", "m", "a", "g", "e", "/", "p", "n", "g" >>,
                     tileMatrixSet |-> << "u", "t", "m", "3", "2", "n" >>,
                     crs |-> << "E", "P", "S", "G", ":", "2", "5", "8", "3", "2" >>],
                    [type |-> << "w", "m", "t", "s" >>,
                     label |-> << "U", "T", "M", " ", "3", "3", "N", " ", "(", "E", "P", "S", "G", ":", "2", "5", "8", "3", "3", ")" >>,
                     capabilities |-> << "h", "t", "t", "p", "s", ":", "/", "/", "c", "a", "c", "h", "e", ".", "k", "a", "r", "t", "v", "e", "r", "k", "e", "t", ".", "n", "o", "/", "v", "1", "/", "s", "e", "r", "v", "i", "c", "e", "?", "s", "e", "r", "v", "i", "c", "e", "=", "W", "M", "T", "S", "&", "r", "e", "q", "u", "e", "s", "t", "=", "G", "e", "t", "C", "a", "p", "a", "b", "i", "l", "i", "t", "i", "e", "s" >>,
                     layer |-> << "e", "u", "r", "o", "p", "a", "F", "o", "r", "e", "n", "k", "l", "e", "t" >>,
                     style |-> << "d", "e", "f", "a", "u", "l", "t" >>,
                     format |-> << "i", "m", "a", "g", "e", "/", "p", "n", "g" >>,
                     tileMatrixSet |-> << "u", "t", "m", "3", "3", "n" >>,
                     crs |-> << "E", "P", "S", "G", ":", "2", "5", "8", "3", "3" >>],
                    [type |-> << "w", "m", "t", "s" >>,
                     label |-> << "U", "T", "M", " ", "3", "5", "N", " ", "(", "E", "P", "S", "G", ":", "2", "5", "8", "3", "5", ")" >>,
                     capabilities |-> << "h", "t", "t", "p", "s", ":", "/", "/", "c", "a", "c", "h", "e", ".", "k", "a", "r", "t", "v", "e", "r", "k", "e", "t", ".", "n", "o", "/", "v", "1", "/", "s", "e", "r", "v", "i", "c", "e", "?", "s", "e", "r", "v", "i", "c", "e", "=", "W", "M", "T", "S", "&", "r", "e", "q", "u", "e", "s", "t", "=", "G", "e", "t", "C", "a", "p", "a", "b", "i", "l", "i", "t", "i", "e", "s" >>,
                     layer |-> << "e", "u", "r", "o", "p", "a", "F", "o", "r", "e", "n", "k", "l", "e", "t" >>,
                     style |-> << "d", "e", "f", "a", "u", "l", "t" >>,
                     format |-> << "i", "m", "a", "g", "e", "/", "p", "n", "g" >>,
                     tileMatrixSet |-> << "u", "t", "m", "3", "5", "n" >>,
                     crs |-> << "E", "P", "S", "G", ":", "2", "5", "8", "3", "5" >>],
                    [type |-> << "w", "m", "t", "s" >>,
                     label |-> << "W", "e", "b", "M", "e", "r", "c", "a", "t", "o", "r", " ", "(", "E", "P", "S", "G", ":", "3", "8", "5", "7", ")" >>,
                     capabilities |-> << "h", "t", "t", "p", "s", ":", "/", "/", "c", "a", "c", "h", "e", ".", "k", "a", "r", "t", "v", "e", "r", "k", "e", "t", ".", "n", "o", "/", "v", "1", "/", "s", "e", "r", "v", "i", "c", "e", "?", "s", "e", "r", "v", "i", "c", "e", "=", "W", "M", "T", "S", "&", "r", "e", "q", "u", "e", "s", "t", "=", "G", "e", "t", "C", "a", "p", "a", "b", "i", "l", "i", "t", "i", "e", "s" >>,
                     layer |-> << "e", "u", "r", "o", "p", "a", "F", "o", "r", "e", "n", "k", "l", "e", "t" >>,
                     style |-> << "d", "e", "f", "a", "u", "l", "t" >>,
                     format |-> << "i", "m", "a", "g", "e", "/", "p", "n", "g" >>,
                     tileMatrixSet |-> << "w", "e", "b", "m", "e", "r", "c", "a", "t", "o", "r" >>,
                     crs |-> << "E", "P", "S", "G", ":", "3", "8", "5", "7" >>]
                >>]]
        >>],
       [
        name |-> << "N", "o", "r", "g", "e", "s", " ", "g", "r", "u", "n", "n", "k", "a", "r", "t" >>,
        description |-> << "T", "j", "e", "n", "e", "s", "t", "e", "n", " ", "i", "n", "n", "e", "h", "o", "l", "d", "e", "r", " ", "t", "o", "p", "o", "g", "r", "a", "f", "i", "s", "k", "e", " ", "k", "a", "r", "t", " ", "i", " ", "m", "å", "l", "e", "s", "t", "o", "k", "k", "e", "n", " ", "1", ":", "5", "0", "0", " ", "t", "i", "l", " ", "1", ":", "1", "0", "M", ".", " ", "<", "a", " ", "h", "r", "e", "f", "=", "\"", "h", "t", "t", "p", "s", ":", "/", "/", "k", "a", "r", "t", "k", "a", "t", "a", "l", "o", "g", ".", "g", "e", "o", "n", "o", "r", "g", "e", ".", "n", "o", "/", "m", "e", "t", "a", "d", "a", "t", "a", "/", "n", "o", "r", "g", "e", "s", "-", "g", "r", "u", "n", "n", "k", "a", "r", "t", "-", "w", "m", "s", "/", "8", "e", "c", "a", "a", "2", "d", "5", "-", "8", "b", "0", "a", "-", "4", "6", "c", "f", "-", "a", "2", "a", "7", "-", "2", "5", "8", "4", "f", "7", "8", "b", "1", "2", "e", "2", "\"", ">", "S", "e", " ", "m", "e", "r", " ", "i", "n", "f", "o", "r", "m", "a", "s", "j", "o", "n", "<", "/", "a", ">", "<", "b", "r", ">", "<", "b", "r", ">", "&", "c", "o", "p", "y", ";", " ", "<", "a", " ", "h", "r", "e", "f", "=", "\"", "h", "t", "t", "p", "s", ":", "/", "/", "w", "w", "w", ".", "k", "a", "r", "t", "v", "e", "r", "k", "e", "t", ".", "n", "o", "\"", ">", "K", "a", "r", "t", "v", "e", "r", "k", "e", "t", "<", "/", "a", ">", "." >>,
        preview |-> << "p", "r", "e", "v", "i", "e", "w", "s", "/", "b", "a", "s", "e", "m", "a", "p", ".", "p", "n", "g" >>,
        thumb |-> << "p", "r", "e", "v", "i", "e", "w", "s", "/", "b", "a", "s", "e", "m", "a", "p", "_", "t", "h", "u", "m", "b", ".", "p", "n", "g" >>,
        offerings |-> <<
            [key |-> << "w", "m", "s" >>,
             off |-> [
                label |-> << "W", "M", "S" >>,
                variants |-> <<
                    [type |-> << "w", "m", "s" >>,
                     label |-> << "U", "T", "M", " ", "3", "2", "N", " ", "(", "E", "P", "S", "G", ":", "2", "5", "8", "3", "2", ")" >>,
                     url |-> << "h", "t", "t", "p", "s", ":", "/", "/", "w", "m", "s", ".", "g", "e", "o", "n", "o", "r", "g", "e", ".", "n", "o", "/", "s", "k", "w", "m", "s", "1", "/", "w", "m", "s", ".", "n", "o", "r", "g", "e", "s", "_", "g", "r", "u", "n", "n", "k", "a", "r", "t", "?", "s", "e", "r", "v", "i", "c", "e", "=", "w", "m", "s", "&", "r", "e", "q", "u", "e", "s", "t", "=", "g", "e", "t", "c", "a", "p", "a", "b", "i", "l", "i", "t", "i", "e", "s" >>,
                     layers |-> << "N", "o", "r", "g", "e", "s", "_", "g", "r", "u", "n", "n", "k", "a", "r", "t" >>,
                     styles |-> << >>,
                     format |-> << "i", "m", "a", "g", "e", "/", "p", "n", "g" >>,
                     crs |-> << "E", "P", "S", "G", ":", "2", "5", "8", "3", "2" >>],
                    [type |-> << "w", "m", "s" >>,
                     label |-> << "U", "T", "M", " ", "3", "3", "N", " ", "(", "E", "P", "S", "G", ":", "2", "5", "8", "3", "3", ")" >>,
                     url |-> << "h", "t", "t", "p", "s", ":", "/", "/", "w", "m", "s", ".", "g", "e", "o", "n", "o", "r", "g", "e", ".", "n", "o", "/", "s", "k", "w", "m", "s", "1", "/", "w", "m", "s", ".", "n", "o", "r", "g", "e", "s", "_", "g", "r", "u", "n", "n", "k", "a", "r", "t", "?", "s", "e", "r", "v", "i", "c", "e", "=", "w", "m", "s", "&", "r", "e", "q", "u", "e", "s", "t", "=", "g", "e", "t", "c", "a", "p", "a", "b", "i", "l", "i", "t", "i", "e", "s" >>,
                     layers |-> << "N", "o", "r", "g", "e", "s", "_", "g", "r", "u", "n", "n", "k", "a", "r", "t" >>,
                     styles |-> << >>,
                     format |-> << "i", "m", "a", "g", "e", "/", "p", "n", "g" >>,
                     crs |-> << "E", "P", "S", "G", ":", "2", "5", "8", "3", "3" >>],
                    [type |-> << "w", "m", "s" >>,
                     label |-> << "U", "T", "M", " ", "3", "5", "N", " ", "(", "E", "P", "S", "G", ":", "2", "5", "8", "3", "5", ")" >>,
                     url |-> << "h", "t", "t", "p", "s", ":", "/", "/", "w", "m", "s", ".", "g", "e", "o", "n", "o", "r", "g", "e", ".", "n", "o", "/", "s", "k", "w", "m", "s", "1", "/", "w", "m", "s", ".", "n", "o", "r", "g", "e", "s", "_", "g", "r", "u", "n", "n", "k", "a", "r", "t", "?", "s", "e", "r", "v", "i", "c", "e", "=", "w", "m", "s", "&", "r", "e", "q", "u", "e", "s", "t", "=", "g", "e", "t", "c", "a", "p", "a", "b", "i", "l", "i", "t", "i", "e", "s" >>,
                     layers |-> << "N", "o", "r", "g", "e", "s", "_", "g", "r", "u", "n", "n", "k", "a", "r", "t" >>,
                     styles |-> << >>,
                     format |-> << "i", "m", "a", "g", "e", "/", "p", "n", "g" >>,
                     crs |-> << "E", "P", "S", "G", ":", "2", "5", "8", "3", "5" >>],
                    [type |-> << "w", "m", "s" >>,
                     label |-> << "W", "e", "b", "M", "e", "r", "c", "a", "t", "o", "r", " ", "(", "E", "P", "S", "G", ":", "3", "8", "5", "7", ")" >>,
                     url |-> << "h", "t", "t", "p", "s", ":", "/", "/", "w", "m", "s", ".", "g", "e", "o", "n", "o", "r", "g", "e", ".", "n", "o", "/", "s", "k", "w", "m", "s", "1", "/", "w", "m", "s", ".", "n", "o", "r", "g", "e", "s", "_", "g", "r", "u", "n", "n", "k", "a", "r", "t", "?", "s", "e", "r", "v", "i", "c", "e", "=", "w", "m", "s", "&", "r", "e", "q", "u", "e", "s", "t", "=", "g", "e", "t", "c", "a", "p", "a", "b", "i", "l", "i", "t", "i", "e", "s" >>,
                     layers |-> << "N", "o", "r", "g", "e", "s", "_", "g", "r", "u", "n", "n", "k", "a", "r", "t" >>,
                     styles |-> << >>,
                     format |-> << "i", "m", "a", "g", "e", "/", "p", "n", "g" >>,
                     crs |-> << "E", "P", "S", "G", ":", "3", "8", "5", "7" >>],
                    [type |-> << "w", "m", "s" >>,
                     label |-> << "W", "G", "S", "8", "4", " ", "(", "E", "P", "S", "G", ":", "4", "3", "2", "6", ")" >>,
                     url |-> << "h", "t", "t", "p", "s", ":", "/", "/", "w", "m", "s", ".", "g", "e", "o", "n", "o", "r", "g", "e", ".", "n", "o", "/", "s", "k", "w", "m", "s", "1", "/", "w", "m", "s", ".", "n", "o", "r", "g", "e", "s", "_", "g", "r", "u", "n", "n", "k", "a", "r", "t", "?", "s", "e", "r", "v", "i", "c", "e", "=", "w", "m", "s", "&", "r", "e", "q", "u", "e", "s", "t", "=", "g", "e", "t", "c", "a", "p", "a", "b", "i", "l", "i", "t", "i", "e", "s" >>,
                     layers |-> << "N", "o", "r", "g", "e", "s", "_", "g", "r", "u", "n", "n", "k", "a", "r", "t" >>,
                     styles |-> << >>,
                     format |-> << "i", "m", "a", "g", "e", "/", "p", "n", "g" >>,
                     crs |-> << "E", "P", "S", "G", ":", "4", "3", "2", "6" >>]
                >>]]
        >>],
       [
        name |-> << "N", "o", "r", "g", "e", "s", " ", "g", "r", "u", "n", "n", "k", "a", "r", "t", " ", "g", "r", "å", "t", "o", "n", "e" >>,
        description |-> << "T", "j", "e", "n", "e", "s", "t", "e", "n", " ", "i", "n", "n", "e", "h", "o", "l", "d", "e", "r", " ", "t", "o", "p", "o", "g", "r", "a", "f", "i", "s", "k", "e", " ", "k", "a", "r", "t", " ", "i", " ", "m", "å", "l", "e", "s", "t", "o", "k", "k", "e", "n", " ", "1", ":", "5", "0", "0", " ", "t", "i", "l", " ", "1", ":", "1", "0", "M", " ", "i", " ", "g", "r", "å", "s", "k", "a", "l", "a", ".", " ", "<", "a", " ", "h", "r", "e", "f", "=", "\"", "h", "t", "t", "p", "s", ":", "/", "/", "k", "a", "r", "t", "k", "a", "t", "a", "l", "o", "g", ".", "g", "e", "o", "n", "o", "r", "g", "e", ".", "n", "o", "/", "m", "e", "t", "a", "d", "a", "t", "a", "/", "n", "o", "r", "g", "e", "s", "-", "g", "r", "u", "n", "n", "k", "a", "r", "t", "-", "g", "r", "a", "a", "t", "o", "n", "e", "-", "w", "m", "s", "/", "d", "2", "4", "a", "0", "b", "f", "9", "-", "1", "3", "9", "8", "-", "4", "b", "c", "4", "-", "a", "4", "b", "a", "-", "6", "3", "8", "9", "6", "b", "0", "a", "5", "9", "9", "c", "\"", ">", "S", "e", " ", "m", "e", "r", " ", "i", "n", "f", "o", "r", "m", "a", "s", "j", "o", "n", "<", "/", "a", ">", "<", "b", "r", ">", "<", "b", "r", ">", "&", "c", "o", "p", "y", ";", " ", "<", "a", " ", "h", "r", "e", "f", "=", "\"", "h", "t", "t", "p", "s", ":", "/", "/", "w", "w", "w", ".", "k", "a", "r", "t", "v", "e", "r", "k", "e", "t", ".", "n", "o", "\"", ">", "K", "a", "r", "t", "v", "e", "r", "k", "e", "t", "<", "/", "a", ">", "." >>,
        preview |-> << "p", "r", "e", "v", "i", "e", "w", "s", "/", "b", "a", "s", "e", "m", "a", "p", "g", "r", "e", "y", ".", "p", "n", "g" >>,
        thumb |-> << "p", "r", "e", "v", "i", "e", "w", "s", "/", "b", "a", "s", "e", "m", "a", "p", "g", "r", "e", "y", "_", "t", "h", "u", "m", "b", ".", "p", "n", "g" >>,
        offerings |-> <<
            [key |-> << "w", "m", "s" >>,
             off |-> [
                label |-> << "W", "M", "S" >>,
                variants |-> <<
                    [type |-> << "w", "m", "s" >>,
                     label |-> << "U", "T", "M", " ", "3", "2", "N", " ", "(", "E", "P", "S", "G", ":", "2", "5", "8", "3", "2", ")" >>,
                     url |-> << "h", "t", "t", "p", "s", ":", "/", "/", "w", "m", "s", ".", "g", "e", "o", "n", "o", "r", "g", "e", ".", "n", "o", "/", "s", "k", "w", "m", "s", "1", "/", "w", "m", "s", ".", "n", "o", "r", "g", "e", "s", "_", "g", "r", "u", "n", "n", "k", "a", "r", "t", "_", "g", "r", "a", "a", "t", "o", "n", "e", "?", "s", "e", "r", "v", "i", "c", "e", "=", "w", "m", "s", "&", "r", "e", "q", "u", "e", "s", "t", "=", "g", "e", "t", "c", "a", "p", "a", "b", "i", "l", "i", "t", "i", "e", "s" >>,
                     layers |-> << "N", "o", "r", "g", "e", "s", "_", "g", "r", "u", "n", "n", "k", "a", "r", "t", "_", "g", "r", "a", "a", "t", "o", "n", "e" >>,
                     styles |-> << >>,
                     format |-> << "i", "m", "a", "g", "e", "/", "p", "n", "g" >>,
                     crs |-> << "E", "P", "S", "G", ":", "2", "5", "8", "3", "2" >>],
                    [type |-> << "w", "m", "s" >>,
                     label |-> << "U", "T", "M", " ", "3", "3", "N", " ", "(", "E", "P", "S", "G", ":", "2", "5", "8", "3", "3", ")" >>,
                     url |-> << "h", "t", "t", "p", "s", ":", "/", "/", "w", "m", "s", ".", "g", "e", "o", "n", "o", "r", "g", "e", ".", "n", "o", "/", "s", "k", "w", "m", "s", "1", "/", "w", "m", "s", ".", "n", "o", "r", "g", "e", "s", "_", "g", "r", "u", "n", "n", "k", "a", "r", "t", "_", "g", "r", "a", "a", "t", "o", "n", "e", "?", "s", "e", "r", "v", "i", "c", "e", "=", "w", "m", "s", "&", "r", "e", "q", "u", "e", "s", "t", "=", "g", "e", "t", "c", "a", "p", "a", "b", "i", "l", "i", "t", "i", "e", "s" >>,
                     layers |-> << "N", "o", "r", "g", "e", "s", "_", "g", "r", "u", "n", "n", "k", "a", "r", "t", "_", "g", "r", "a", "a", "t", "o", "n", "e" >>,
                     styles |-> << >>,
                     format |-> << "i", "m", "a", "g", "e", "/", "p", "n", "g" >>,
                     crs |-> << "E", "P", "S", "G", ":", "2", "5", "8", "3", "3" >>],
                    [type |-> << "w", "m", "s" >>,
                     label |-> << "U", "T", "M", " ", "3", "5", "N", " ", "(", "E", "P", "S", "G", ":", "2", "5", "8", "3", "5", ")" >>,
                     url |-> << "h", "t", "t", "p", "s", ":", "/", "/", "w", "m", "s", ".", "g", "e", "o", "n", "o", "r", "g", "e", ".", "n", "o", "/", "s", "k", "w", "m", "s", "1", "/", "w", "m", "s", ".", "n", "o", "r", "g", "e", "s", "_", "g", "r", "u", "n", "n", "k", "a", "r", "t", "_", "g", "r", "a", "a", "t", "o", "n", "e", "?", "s", "e", "r", "v", "i", "c", "e", "=", "w", "m", "s", "&", "r", "e", "q", "u", "e", "s", "t", "=", "g", "e", "t", "c", "a", "p", "a", "b", "i", "l", "i", "t", "i", "e", "s" >>,
                     layers |-> << "N", "o", "r", "g", "e", "s", "_", "g", "r", "u", "n", "n", "k", "a", "r", "t", "_", "g", "r", "a", "a", "t", "o", "n", "e" >>,
                     styles |-> << >>,
                     format |-> << "i", "m", "a", "g", "e", "/", "p", "n", "g" >>,
                     crs |-> << "E", "P", "S", "G", ":", "2", "5", "8", "3", "5" >>],
                    [type |-> << "w", "m", "s" >>,
                     label |-> << "W", "e", "b", "M", "e", "r", "c", "a", "t", "o", "r", " ", "(", "E", "P", "S", "G", ":", "3", "8", "5", "7", ")" >>,
                     url |-> << "h", "t", "t", "p", "s", ":", "/", "/", "w", "m", "s", ".", "g", "e", "o", "n", "o", "r", "g", "e", ".", "n", "o", "/", "s", "k", "w", "m", "s", "1", "/", "w", "m", "s", ".", "n", "o", "r", "g", "e", "s", "_", "g", "r", "u", "n", "n", "k", "a", "r", "t", "_", "g", "r", "a", "a", "t", "o", "n", "e", "?", "s", "e", "r", "v", "i", "c", "e", "=", "w", "m", "s", "&", "r", "e", "q", "u", "e", "s", "t", "=", "g", "e", "t", "c", "a", "p", "a", "b", "i", "l", "i", "t", "i", "e", "s" >>,
                     layers |-> << "N", "o", "r", "g", "e", "s", "_", "g", "r", "u", "n", "n", "k", "a", "r", "t", "_", "g", "r", "a", "a", "t", "o", "n", "e" >>,
                     styles |-> << >>,
                     format |-> << "i", "m", "a", "g", "e", "/", "p", "n", "g" >>,
                     crs |-> << "E", "P", "S", "G", ":", "3", "8", "5", "7" >>],
                    [type |-> << "w", "m", "s" >>,
                     label |-> << "W", "G", "S", "8", "4", " ", "(", "E", "P", "S", "G", ":", "4", "3", "2", "6", ")" >>,
                     url |-> << "h", "t", "t", "p", "s", ":", "/", "/", "w", "m", "s", ".", "g", "e", "o", "n", "o", "r", "g", "e", ".", "n", "o", "/", "s", "k", "w", "m", "s", "1", "/", "w", "m", "s", ".", "n", "o", "r", "g", "e", "s", "_", "g", "r", "u", "n", "n", "k", "a", "r", "t", "_", "g", "r", "a", "a", "t", "o", "n", "e", "?", "s", "e", "r", "v", "i", "c", "e", "=", "w", "m", "s", "&", "r", "e", "q", "u", "e", "s", "t", "=", "g", "e", "t", "c", "a", "p", "a", "b", "i", "l", "i", "t", "i", "e", "s" >>,
                     layers |-> << "N", "o", "r", "g", "e", "s", "_", "g", "r", "u", "n", "n", "k", "a", "r", "t", "_", "g", "r", "a", "a", "t", "o", "n", "e" >>,
                     styles |-> << >>,
                     format |-> << "i", "m", "a", "g", "e", "/", "p", "n", "g" >>,
                     crs |-> << "E", "P", "S", "G", ":", "4", "3", "2", "6" >>]
                >>]]
        >>],
       [
        name |-> << "S", "j", "ø", "k", "a", "r", "t" >>,
        description |-> << "S", "j", "ø", "k", "a", "r", "t", " ", "i", " ", "r", "a", "s", "t", "e", "r", "f", "o", "r", "m", "a", "t", " ", "m", "e", "d", " ", "s", "j", "ø", "d", "a", "t", "a", " ", "f", "r", "a", " ", "o", "v", "e", "r", "s", "e", "i", "l", "i", "n", "g", "s", "k", "a", "r", "t", ",", " ", "h", "o", "v", "e", "d", "k", "a", "r", "t", ",", " ", "k", "y", "s", "t", "k", "a", "r", "t", ",", " ", "h", "a", "v", "n", "e", "k", "a", "r", "t", " ", "s", "a", "m", "t", " ", "S", "v", "a", "l", "b", "a", "r", "d", "k", "a", "r", "t", ".", " ", "<", "a", " ", "h", "r", "e", "f", "=", "\"", "h", "t", "t", "p", "s", ":", "/", "/", "k", "a", "r", "t", "k", "a", "t", "a", "l", "o", "g", ".", "g", "e", "o", "n", "o", "r", "g", "e", ".", "n", "o", "/", "m", "e", "t", "a", "d", "a", "t", "a", "/", "t", "o", "p", "o", "g", "r", "a", "f", "i", "s", "k", "-", "n", "o", "r", "g", "e", "s", "k", "a", "r", "t", "-", "w", "m", "t", "s", "-", "-", "c", "a", "c", "h", "e", "/", "8", "f", "3", "8", "1", "1", "8", "0", "-", "1", "a", "4", "7", "-", "4", "4", "5", "3", "-", "b", "e", "e", "7", "-", "9", "a", "3", "d", "6", "4", "8", "4", "3", "e", "f", "a", "\"", ">", "S", "e", " ", "m", "e", "r", " ", "i", "n", "f", "o", "r", "m", "a", "s", "j", "o", "n", "<", "/", "a", ">", "<", "b", "r", ">", "<", "b", "r", ">", "&", "c", "o", "p", "y", ";", " ", "<", "a", " ", "h", "r", "e", "f", "=", "\"", "h", "t", "t", "p", "s", ":", "/", "/", "w", "w", "w", ".", "k", "a", "r", "t", "v", "e", "r", "k", "e", "t", ".", "n", "o", "\"", ">", "K", "a", "r", "t", "v", "e", "r", "k", "e", "t", "<", "/", "a", ">", "." >>,
        preview |-> << "p", "r", "e", "v", "i", "e", "w", "s", "/", "o", "c", "e", "a", "n", ".", "p", "n", "g" >>,
        thumb |-> << "p", "r", "e", "v", "i", "e", "w", "s", "/", "o", "c", "e", "a", "n", "_", "t", "h", "u", "m", "b", ".", "p", "n", "g" >>,
        offerings |-> <<
            [key |-> << "w", "m", "t", "s" >>,
             off |-> [
                label |-> << "W", "M", "T", "S" >>,
                variants |-> <<
                    [type |-> << "w", "m", "t", "s" >>,
                     label |-> << "U", "T", "M", " ", "3", "2", "N", " ", "(", "E", "P", "S", "G", ":", "2", "5", "8", "3", "2", ")" >>,
                     capabilities |-> << "h", "t", "t", "p", "s", ":", "/", "/", "c", "a", "c", "h", "e", ".", "k", "a", "r", "t", "v", "e", "r", "k", "e", "t", ".", "n", "o", "/", "v", "1", "/", "s", "e", "r", "v", "i", "c", "e", "?", "s", "e", "r", "v", "i", "c", "e", "=", "W", "M", "T", "S", "&", "r", "e", "q", "u", "e", "s", "t", "=", "G", "e", "t", "C", "a", "p", "a", "b", "i", "l", "i", "t", "i", "e", "s" >>,
                     layer |-> << "s", "j", "o", "k", "a", "r", "t", "r", "a", "s", "t", "e", "r" >>,
                     style |-> << "d", "e", "f", "a", "u", "l", "t" >>,
                     format |-> << "i", "m", "a", "g", "e", "/", "p", "n", "g" >>,
                     tileMatrixSet |-> << "u", "t", "m", "3", "2", "n" >>,
                     crs |-> << "E", "P", "S", "G", ":", "2", "5", "8", "3", "2" >>],
                    [type |-> << "w", "m", "t", "s" >>,
                     label |-> << "U", "T", "M", " ", "3", "3", "N", " ", "(", "E", "P", "S", "G", ":", "2", "5", "8", "3", "3", ")" >>,
                     capabilities |-> << "h", "t", "t", "p", "s", ":", "/", "/", "c", "a", "c", "h", "e", ".", "k", "a", "r", "t", "v", "e", "r", "k", "e", "t", ".", "n", "o", "/", "v", "1", "/", "s", "e", "r", "v", "i", "c", "e", "?", "s", "e", "r", "v", "i", "c", "e", "=", "W", "M", "T", "S", "&", "r", "e", "q", "u", "e", "s", "t", "=", "G", "e", "t", "C", "a", "p", "a", "b", "i", "l", "i", "t", "i", "e", "s" >>,
                     layer |-> << "s", "j", "o", "k", "a", "r", "t", "r", "a", "s", "t", "e", "r" >>,
                     style |-> << "d", "e", "f", "a", "u", "l", "t" >>,
                     format |-> << "i", "m", "a", "g", "e", "/", "p", "n", "g" >>,
                     tileMatrixSet |-> << "u", "t", "m", "3", "3", "n" >>,
                     crs |-> << "E", "P", "S", "G", ":", "2", "5", "8", "3", "3" >>],
                    [type |-> << "w", "m", "t", "s" >>,
                     label |-> << "U", "T", "M", " ", "3", "5", "N", " ", "(", "E", "P", "S", "G", ":", "2", "5", "8", "3", "5", ")" >>,
                     capabilities |-> << "h", "t", "t", "p", "s", ":", "/", "/", "c", "a", "c", "h", "e", ".", "k", "a", "r", "t", "v", "e", "r", "k", "e", "t", ".", "n", "o", "/", "v", "1", "/", "s", "e", "r", "v", "i", "c", "e", "?", "s", "e", "r", "v", "i", "c", "e", "=", "W", "M", "T", "S", "&", "r", "e", "q", "u", "e", "s", "t", "=", "G", "e", "t", "C", "a", "p", "a", "b", "i", "l", "i", "t", "i", "e", "s" >>,
                     layer |-> << "s", "j", "o", "k", "a", "r", "t", "r", "a", "s", "t", "e", "r" >>,
                     style |-> << "d", "e", "f", "a", "u", "l", "t" >>,
                     format |-> << "i", "m", "a", "g", "e", "/", "p", "n", "g" >>,
                     tileMatrixSet |-> << "u", "t", "m", "3", "5", "n" >>,
                     crs |-> << "E", "P", "S", "G", ":", "2", "5", "8", "3", "5" >>],
                    [type |-> << "w", "m", "t", "s" >>,
                     label |-> << "W", "e", "b", "M", "e", "r", "c", "a", "t", "o", "r", " ", "(", "E", "P", "S", "G", ":", "3", "8", "5", "7", ")" >>,
                     capabilities |-> << "h", "t", "t", "p", "s", ":", "/", "/", "c", "a", "c", "h", "e", ".", "k", "a", "r", "t", "v", "e", "r", "k", "e", "t", ".", "n", "o", "/", "v", "1", "/", "s", "e", "r", "v", "i", "c", "e", "?", "s", "e", "r", "v", "i", "c", "e", "=", "W", "M", "T", "S", "&", "r", "e", "q", "u", "e", "s", "t", "=", "G", "e", "t", "C", "a", "p", "a", "b", "i", "l", "i", "t", "i", "e", "s" >>,
                     layer |-> << "s", "j", "o", "k", "a", "r", "t", "r", "a", "s", "t", "e", "r" >>,
                     style |-> << "d", "e", "f", "a", "u", "l", "t" >>,
                     format |-> << "i", "m", "a", "g", "e", "/", "p", "n", "g" >>,
                     tileMatrixSet |-> << "w", "e", "b", "m", "e", "r", "c", "a", "t", "o", "r" >>,
                     crs |-> << "E", "P", "S", "G", ":", "3", "8", "5", "7" >>]
                >>]],
            [key |-> << "w", "m", "s" >>,
             off |-> [
                label |-> << "W", "M", "S" >>,
                variants |-> <<
                    [type |-> << "w", "m", "s" >>,
                     label |-> << "U", "T", "M", " ", "3", "2", "N", " ", "(", "E", "P", "S", "G", ":", "2", "5", "8", "3", "2", ")" >>,
                     url |-> << "h", "t", "t", "p", "s", ":", "/", "/", "w", "m", "s", ".", "g", "e", "o", "n", "o", "r", "g", "e", ".", "n", "o", "/", "s", "k", "w", "m", "s", "1", "/", "w", "m", "s", ".", "s", "j", "o", "k", "a", "r", "t", "r", "a", "s", "t", "e", "r", "2", "?", "s", "e", "r", "v", "i", "c", "e", "=", "w", "m", "s", "&", "r", "e", "q", "u", "e", "s", "t", "=", "g", "e", "t", "c", "a", "p", "a", "b", "i", "l", "i", "t", "i", "e", "s" >>,
                     layers |-> << "a", "l", "l" >>,
                     styles |-> << >>,
                     format |-> << "i", "m", "a", "g", "e", "/", "p", "n", "g" >>,
                     crs |-> << "E", "P", "S", "G", ":", "2", "5", "8", "3", "2" >>],
                    [type |-> << "w", "m", "s" >>,
                     label |-> << "U", "T", "M", " ", "3", "3", "N", " ", "(", "E", "P", "S", "G", ":", "2", "5", "8", "3", "3", ")" >>,
                     url |-> << "h", "t", "t", "p", "s", ":", "/", "/", "w", "m", "s", ".", "g", "e", "o", "n", "o", "r", "g", "e", ".", "n", "o", "/", "s", "k", "w", "m", "s", "1", "/", "w", "m", "s", ".", "s", "j", "o", "k", "a", "r", "t", "r", "a", "s", "t", "e", "r", "2", "?", "s", "e", "r", "v", "i", "c", "e", "=", "w", "m", "s", "&", "r", "e", "q", "u", "e", "s", "t", "=", "g", "e", "t", "c", "a", "p", "a", "b", "i", "l", "i", "t", "i", "e", "s" >>,
                     layers |-> << "a", "l", "l" >>,
                     styles |-> << >>,
                     format |-> << "i", "m", "a", "g", "e", "/", "p", "n", "g" >>,
                     crs |-> << "E", "P", "S", "G", ":", "2", "5", "8", "3", "3" >>],
                    [type |-> << "w", "m", "s" >>,
                     label |-> << "U", "T", "M", " ", "3", "5", "N", " ", "(", "E", "P", "S", "G", ":", "2", "5", "8", "3", "5", ")" >>,
                     url |-> << "h", "t", "t", "p", "s", ":", "/", "/", "w", "m", "s", ".", "g", "e", "o", "n", "o", "r", "g", "e", ".", "n", "o", "/", "s", "k", "w", "m", "s", "1", "/", "w", "m", "s", ".", "s", "j", "o", "k", "a", "r", "t", "r", "a", "s", "t", "e", "r", "2", "?", "s", "e", "r", "v", "i", "c", "e", "=", "w", "m", "s", "&", "r", "e", "q", "u", "e", "s", "t", "=", "g", "e", "t", "c", "a", "p", "a", "b", "i", "l", "i", "t", "i", "e", "s" >>,
                     layers |-> << "a", "l", "l" >>,
                     styles |-> << >>,
                     format |-> << "i", "m", "a", "g", "e", "/", "p", "n", "g" >>,
                     crs |-> << "E", "P", "S", "G", ":", "2", "5", "8", "3", "5" >>],
                    [type |-> << "w", "m", "s" >>,
                     label |-> << "W", "e", "b", "M", "e", "r", "c", "a", "t", "o", "r", " ", "(", "E", "P", "S", "G", ":", "3", "8", "5", "7", ")" >>,
                     url |-> << "h", "t", "t", "p", "s", ":", "/", "/", "w", "m", "s", ".", "g", "e", "o", "n", "o", "r", "g", "e", ".", "n", "o", "/", "s", "k", "w", "m", "s", "1", "/", "w", "m", "s", ".", "s", "j", "o", "k", "a", "r", "t", "r", "a", "s", "t", "e", "r", "2", "?", "s", "e", "r", "v", "i", "c", "e", "=", "w", "m", "s", "&", "r", "e", "q", "u", "e", "s", "t", "=", "g", "e", "t", "c", "a", "p", "a", "b", "i", "l", "i", "t", "i", "e", "s" >>,
                     layers |-> << "a", "l", "l" >>,
                     styles |-> << >>,
                     format |-> << "i", "m", "a", "g", "e", "/", "p", "n", "g" >>,
                     crs |-> << "E", "P", "S", "G", ":", "3", "8", "5", "7" >>],
                    [type |-> << "w", "m", "s" >>,
                     label |-> << "W", "G", "S", "8", "4", " ", "(", "E", "P", "S", "G", ":", "4", "3", "2", "6", ")" >>,
                     url |-> << "h", "t", "t", "p", "s", ":", "/", "/", "w", "m", "s", ".", "g", "e", "o", "n", "o", "r", "g", "e", ".", "n", "o", "/", "s", "k", "w", "m", "s", "1", "/", "w", "m", "s", ".", "s", "j", "o", "k", "a", "r", "t", "r", "a", "s", "t", "e", "r", "2", "?", "s", "e", "r", "v", "i", "c", "e", "=", "w", "m", "s", "&", "r", "e", "q", "u", "e", "s", "t", "=", "g", "e", "t", "c", "a", "p", "a", "b", "i", "l", "i", "t", "i", "e", "s" >>,
                     layers |-> << "a", "l", "l" >>,
                     styles |-> << >>,
                     format |-> << "i", "m", "a", "g", "e", "/", "p", "n", "g" >>,
                     crs |-> << "E", "P", "S", "G", ":", "4", "3", "2", "6" >>]
                >>]]
        >>],
       [
        name |-> << "T", "o", "p", "o", "g", "r", "a", "f", "i", "s", "k", " ", "g", "r", "å", "t", "o", "n", "e", "k", "a", "r", "t" >>,
        description |-> << "E", "n", " ", "g", "r", "å", "t", "o", "n", "e", "-", "b", "a", "s", "e", "r", "t", " ", "k", "a", "r", "t", "o", "g", "r", "a", "f", "i", " ", "m", "e", "d", " ", "k", "a", "r", "t", "d", "a", "t", "a", " ", "f", "r", "a", " ", "N", "5", "0", " ", "t", "i", "l", " ", "N", "2", "0", "0", "0", ",", " ", "F", "K", "B", ",", " ", "m", "a", "t", "r", "i", "k", "k", "e", "l", ",", " ", "h", "ø", "y", "d", "e", "-", " ", "o", "g", " ", "d", "y", "b", "d", "e", "d", "a", "t", "a", ".", " ", "<", "a", " ", "h", "r", "e", "f", "=", "\"", "h", "t", "t", "p", "s", ":", "/", "/", "k", "a", "r", "t", "k", "a", "t", "a", "l", "o", "g", ".", "g", "e", "o", "n", "o", "r", "g", "e", ".", "n", "o", "/", "m", "e", "t", "a", "d", "a", "t", "a", "/", "t", "o", "p", "o", "g", "r", "a", "f", "i", "s", "k", "-", "n", "o", "r", "g", "e", "s", "k", "a", "r", "t", "-", "w", "m", "t", "s", "-", "-", "c", "a", "c", "h", "e", "/", "8", "f", "3", "8", "1", "1", "8", "0", "-", "1", "a", "4", "7", "-", "4", "4", "5", "3", "-", "b", "e", "e", "7", "-", "9", "a", "3", "d", "6", "4", "8", "4", "3", "e", "f", "a", "\"", ">", "S", "e", " ", "m", "e", "r", " ", "i", "n", "f", "o", "r", "m", "a", "s", "j", "o", "n", "<", "/", "a", ">", "<", "b", "r", ">", "<", "b", "r", ">", "&", "c", "o", "p", "y", ";", " ", "<", "a", " ", "h", "r", "e", "f", "=", "\"", "h", "t", "t", "p", "s", ":", "/", "/", "w", "w", "w", ".", "k", "a", "r", "t", "v", "e", "r", "k", "e", "t", ".", "n", "o", "\"", ">", "K", "a", "r", "t", "v", "e", "r", "k", "e", "t", "<", "/", "a", ">", "." >>,
        preview |-> << "p", "r", "e", "v", "i", "e", "w", "s", "/", "t", "o", "p", "o", "g", "r", "e", "y", ".", "p", "n", "g" >>,
        thumb |-> << "p", "r", "e", "v", "i", "e", "w", "s", "/", "t", "o", "p", "o", "g", "r", "e", "y", "_", "t", "h", "u", "m", "b", ".", "p", "n", "g" >>,
        offerings |-> <<
            [key |-> << "w", "m", "t", "s" >>,
             off |-> [
                label |-> << "W", "M", "T", "S" >>,
                variants |-> <<
                    [type |-> << "w", "m", "t", "s" >>,
                     label |-> << "U", "T", "M", " ", "3", "2", "N", " ", "(", "E", "P", "S", "G", ":", "2", "5", "8", "3", "2", ")" >>,
                     capabilities |-> << "h", "t", "t", "p", "s", ":", "/", "/", "c", "a", "c", "h", "e", ".", "k", "a", "r", "t", "v", "e", "r", "k", "e", "t", ".", "n", "o", "/", "v", "1", "/", "s", "e", "r", "v", "i", "c", "e", "?", "s", "e", "r", "v", "i", "c", "e", "=", "W", "M", "T", "S", "&", "r", "e", "q", "u", "e", "s", "t", "=", "G", "e", "t", "C", "a", "p", "a", "b", "i", "l", "i", "t", "i", "e", "s" >>,
                     layer |-> << "t", "o", "p", "o", "g", "r", "a", "a", "t", "o", "n", "e" >>,
                     style |-> << "d", "e", "f", "a", "u", "l", "t" >>,
                     format |-> << "i", "m", "a", "g", "e", "/", "p", "n", "g" >>,
                     tileMatrixSet |-> << "u", "t", "m", "3", "2", "n" >>,
                     crs |-> << "E", "P", "S", "G", ":", "2", "5", "8", "3", "2" >>],
                    [type |-> << "w", "m", "t", "s" >>,
                     label |-> << "U", "T", "M", " ", "3", "3", "N", " ", "(", "E", "P", "S", "G", ":", "2", "5", "8", "3", "3", ")" >>,
                     capabilities |-> << "h", "t", "t", "p", "s", ":", "/", "/", "c", "a", "c", "h", "e", ".", "k", "a", "r", "t", "v", "e", "r", "k", "e", "t", ".", "n", "o", "/", "v", "1", "/", "s", "e", "r", "v", "i", "c", "e", "?", "s", "e", "r", "v", "i", "c", "e", "=", "W", "M", "T", "S", "&", "r", "e", "q", "u", "e", "s", "t", "=", "G", "e", "t", "C", "a", "p", "a", "b", "i", "l", "i", "t", "i", "e", "s" >>,
                     layer |-> << "t", "o", "p", "o", "g", "r", "a", "a", "t", "o", "n", "e" >>,
                     style |-> << "d", "e", "f", "a", "u", "l", "t" >>,
                     format |-> << "i", "m", "a", "g", "e", "/", "p", "n", "g" >>,
                     tileMatrixSet |-> << "u", "t", "m", "3", "3", "n" >>,
                     crs |-> << "E", "P", "S", "G", ":", "2", "5", "8", "3", "3" >>],
                    [type |-> << "w", "m", "t", "s" >>,
                     label |-> << "U", "T", "M", " ", "3", "5", "N", " ", "(", "E", "P", "S", "G", ":", "2", "5", "8", "3", "5", ")" >>,
                     capabilities |-> << "h", "t", "t", "p", "s", ":", "/", "/", "c", "a", "c", "h", "e", ".", "k", "a", "r", "t", "v", "e", "r", "k", "e", "t", ".", "n", "o", "/", "v", "1", "/", "s", "e", "r", "v", "i", "c", "e", "?", "s", "e", "r", "v", "i", "c", "e", "=", "W", "M", "T", "S", "&", "r", "e", "q", "u", "e", "s", "t", "=", "G", "e", "t", "C", "a", "p", "a", "b", "i", "l", "i", "t", "i", "e", "s" >>,
                     layer |-> << "t", "o", "p", "o", "g", "r", "a", "a", "t", "o", "n", "e" >>,
                     style |-> << "d", "e", "f", "a", "u", "l", "t" >>,
                     format |-> << "i", "m", "a", "g", "e", "/", "p", "n", "g" >>,
                     tileMatrixSet |-> << "u", "t", "m", "3", "5", "n" >>,
                     crs |-> << "E", "P", "S", "G", ":", "2", "5", "8", "3", "5" >>],
                    [type |-> << "w", "m", "t", "s" >>,
                     label |-> << "W", "e", "b", "M", "e", "r", "c", "a", "t", "o", "r", " ", "(", "E", "P", "S", "G", ":", "3", "8", "5", "7", ")" >>,
                     capabilities |-> << "h", "t", "t", "p", "s", ":", "/", "/", "c", "a", "c", "h", "e", ".", "k", "a", "r", "t", "v", "e", "r", "k", "e", "t", ".", "n", "o", "/", "v", "1", "/", "s", "e", "r", "v", "i", "c", "e", "?", "s", "e", "r", "v", "i", "c", "e", "=", "W", "M", "T", "S", "&", "r", "e", "q", "u", "e", "s", "t", "=", "G", "e", "t", "C", "a", "p", "a", "b", "i", "l", "i", "t", "i", "e", "s" >>,
                     layer |-> << "t", "o", "p", "o", "g", "r", "a", "a", "t", "o", "n", "e" >>,
                     style |-> << "d", "e", "f", "a", "u", "l", "t" >>,
                     format |-> << "i", "m", "a", "g", "e", "/", "p", "n", "g" >>,
                     tileMatrixSet |-> << "w", "e", "b", "m", "e", "r", "c", "a", "t", "o", "r" >>,
                     crs |-> << "E", "P", "S", "G", ":", "3", "8", "5", "7" >>]
                >>]],
            [key |-> << "w", "m", "s" >>,
             off |-> [
                label |-> << "W", "M", "S" >>,
                variants |-> <<
                    [type |-> << "w", "m", "s" >>,
                     label |-> << "U", "T", "M", " ", "3", "2", "N", " ", "(", "E", "P", "S", "G", ":", "2", "5", "8", "3", "2", ")" >>,
                     url |-> << "h", "t", "t", "p", "s", ":", "/", "/", "w", "m", "s", ".", "g", "e", "o", "n", "o", "r", "g", "e", ".", "n", "o", "/", "s", "k", "w", "m", "s", "1", "/", "w", "m", "s", ".", "t", "o", "p", "o", "g", "r", "a", "a", "t", "o", "n", "e", "?", "s", "e", "r", "v", "i", "c", "e", "=", "w", "m", "s", "&", "r", "e", "q", "u", "e", "s", "t", "=", "g", "e", "t", "c", "a", "p", "a", "b", "i", "l", "i", "t", "i", "e", "s" >>,
                     layers |-> << "t", "o", "p", "o", "g", "r", "a", "a", "t", "o", "n", "e" >>,
                     styles |-> << >>,
                     format |-> << "i", "m", "a", "g", "e", "/", "p", "n", "g" >>,
                     crs |-> << "E", "P", "S", "G", ":", "2", "5", "8", "3", "2" >>],
                    [type |-> << "w", "m", "s" >>,
                     label |-> << "U", "T", "M", " ", "3", "3", "N", " ", "(", "E", "P", "S", "G", ":", "2", "5", "8", "3", "3", ")" >>,
                     url |-> << "h", "t", "t", "p", "s", ":", "/", "/", "w", "m", "s", ".", "g", "e", "o", "n", "o", "r", "g", "e", ".", "n", "o", "/", "s", "k", "w", "m", "s", "1", "/", "w", "m", "s", ".", "t", "o", "p", "o", "g", "r", "a", "a", "t", "o", "n", "e", "?", "s", "e", "r", "v", "i", "c", "e", "=", "w", "m", "s", "&", "r", "e", "q", "u", "e", "s", "t", "=", "g", "e", "t", "c", "a", "p", "a", "b", "i", "l", "i", "t", "i", "e", "s" >>,
                     layers |-> << "t", "o", "p", "o", "g", "r", "a", "a", "t", "o", "n", "e" >>,
                     styles |-> << >>,
                     format |-> << "i", "m", "a", "g", "e", "/", "p", "n", "g" >>,
                     crs |-> << "E", "P", "S", "G", ":", "2", "5", "8", "3", "3" >>],
                    [type |-> << "w", "m", "s" >>,
                     label |-> << "U", "T", "M", " ", "3", "5", "N", " ", "(", "E", "P", "S", "G", ":", "2", "5", "8", "3", "5", ")" >>,
                     url |-> << "h", "t", "t", "p", "s", ":", "/", "/", "w", "m", "s", ".", "g", "e", "o", "n", "o", "r", "g", "e", ".", "n", "o", "/", "s", "k", "w", "m", "s", "1", "/", "w", "m", "s", ".", "t", "o", "p", "o", "g", "r", "a", "a", "t", "o", "n", "e", "?", "s", "e", "r", "v", "i", "c", "e", "=", "w", "m", "s", "&", "r", "e", "q", "u", "e", "s", "t", "=", "g", "e", "t", "c", "a", "p", "a", "b", "i", "l", "i", "t", "i", "e", "s" >>,
                     layers |-> << "t", "o", "p", "o", "g", "r", "a", "a", "t", "o", "n", "e" >>,
                     styles |-> << >>,
                     format |-> << "i", "m", "a", "g", "e", "/", "p", "n", "g" >>,
                     crs |-> << "E", "P", "S", "G", ":", "2", "5", "8", "3", "5" >>],
                    [type |-> << "w", "m", "s" >>,
                     label |-> << "W", "e", "b", "M", "e", "r", "c", "a", "t", "o", "r", " ", "(", "E", "P", "S", "G", ":", "3", "8", "5", "7", ")" >>,
                     url |-> << "h", "t", "t", "p", "s", ":", "/", "/", "w", "m", "s", ".", "g", "e", "o", "n", "o", "r", "g", "e", ".", "n", "o", "/", "s", "k", "w", "m", "s", "1", "/", "w", "m", "s", ".", "t", "o", "p", "o", "g", "r", "a", "a", "t", "o", "n", "e", "?", "s", "e", "r", "v", "i", "c", "e", "=", "w", "m", "s", "&", "r", "e", "q", "u", "e", "s", "t", "=", "g", "e", "t", "c", "a", "p", "a", "b", "i", "l", "i", "t", "i", "e", "s" >>,
                     layers |-> << "t", "o", "p", "o", "g", "r", "a", "a", "t", "o", "n", "e" >>,
                     styles |-> << >>,
                     format |-> << "i", "m", "a", "g", "e", "/", "p", "n", "g" >>,
                     crs |-> << "E", "P", "S", "G", ":", "3", "8", "5", "7" >>],
                    [type |-> << "w", "m", "s" >>,
                     label |-> << "W", "G", "S", "8", "4", " ", "(", "E", "P", "S", "G", ":", "4", "3", "2", "6", ")" >>,
                     url |-> << "h", "t", "t", "p", "s", ":", "/", "/", "w", "m", "s", ".", "g", "e", "o", "n", "o", "r", "g", "e", ".", "n", "o", "/", "s", "k", "w", "m", "s", "1", "/", "w", "m", "s", ".", "t", "o", "p", "o", "g", "r", "a", "a", "t", "o", "n", "e", "?", "s", "e", "r", "v", "i", "c", "e", "=", "w", "m", "s", "&", "r", "e", "q", "u", "e", "s", "t", "=", "g", "e", "t", "c", "a", "p", "a", "b", "i", "l", "i", "t", "i", "e", "s" >>,
                     layers |-> << "t", "o", "p", "o", "g", "r", "a", "a", "t", "o", "n", "e" >>,
                     styles |-> << >>,
                     format |-> << "i", "m", "a", "g", "e", "/", "p", "n", "g" >>,
                     crs |-> << "E", "P", "S", "G", ":", "4", "3", "2", "6" >>]
                >>]],
            [key |-> << "v", "e", "c", "t", "o", "r", "t", "i", "l", "e" >>,
             off |-> [
                label |-> << "V", "e", "c", "t", "o", "r", " ", "t", "i", "l", "e", "s", " ", "(", "k", "o", "m", "m", "e", "r", ")" >>,
                disabled |-> TRUE,
                disabled_reason |-> << "K", "o", "m", "m", "e", "r", " ", "s", "e", "n", "e", "r", "e" >>,
                variants |-> << >>]]
        >>],
       [
        name |-> << "T", "o", "p", "o", "g", "r", "a", "f", "i", "s", "k", " ", "n", "o", "r", "g", "e", "s", "k", "a", "r", "t" >>,
        description |-> << "E", "n", " ", "k", "a", "r", "t", "o", "g", "r", "a", "f", "i", " ", "i", " ", "f", "a", "r", "g", "e", "r", " ", "m", "e", "d", " ", "k", "a", "r", "t", "d", "a", "t", "a", " ", "f", "r", "a", " ", "N", "5", "0", " ", "t", "i", "l", " ", "N", "2", "0", "0", "0", ",", " ", "F", "K", "B", ",", " ", "m", "a", "t", "r", "i", "k", "k", "e", "l", ",", " ", "h", "ø", "y", "d", "e", "-", " ", "o", "g", " ", "d", "y", "b", "d", "e", "d", "a", "t", "a", ".", " ", "<", "a", " ", "h", "r", "e", "f", "=", "\"", "h", "t", "t", "p", "s", ":", "/", "/", "k", "a", "r", "t", "k", "a", "t", "a", "l", "o", "g", ".", "g", "e", "o", "n", "o", "r", "g", "e", ".", "n", "o", "/", "m", "e", "t", "a", "d", "a", "t", "a", "/", "t", "o", "p", "o", "g", "r", "a", "f", "i", "s", "k", "-", "n", "o", "r", "g", "e", "s", "k", "a", "r", "t", "-", "w", "m", "t", "s", "-", "-", "c", "a", "c", "h", "e", "/", "8", "f", "3", "8", "1", "1", "8", "0", "-", "1", "a", "4", "7", "-", "4", "4", "5", "3", "-", "b", "e", "e", "7", "-", "9", "a", "3", "d", "6", "4", "8", "4", "3", "e", "f", "a", "\"", ">", "S", "e", " ", "m", "e", "r", " ", "i", "n", "f", "o", "r", "m", "a", "s", "j", "o", "n", "<", "/", "a", ">", "<", "b", "r", ">", "<", "b", "r", ">", "&", "c", "o", "p", "y", ";", " ", "<", "a", " ", "h", "r", "e", "f", "=", "\"", "h", "t", "t", "p", "s", ":", "/", "/", "w", "w", "w", ".", "k", "a", "r", "t", "v", "e", "r", "k", "e", "t", ".", "n", "o", "\"", ">", "K", "a", "r", "t", "v", "e", "r", "k", "e", "t", "<", "/", "a", ">", "." >>,
        preview |-> << "p", "r", "e", "v", "i", "e", "w", "s", "/", "t", "o", "p", "o", ".", "p", "n", "g" >>,
        thumb |-> << "p", "r", "e", "v", "i", "e", "w", "s", "/", "t", "o", "p", "o", "_", "t", "h", "u", "m", "b", ".", "p", "n", "g" >>,
        offerings |-> <<
            [key |-> << "w", "m", "t", "s" >>,
             off |-> [
                label |-> << "W", "M", "T", "S" >>,
                variants |-> <<
                    [type |-> << "w", "m", "t", "s" >>,
                     label |-> << "U", "T", "M", " ", "3", "2", "N", " ", "(", "E", "P", "S", "G", ":", "2", "5", "8", "3", "2", ")" >>,
                     capabilities |-> << "h", "t", "t", "p", "s", ":", "/", "/", "c", "a", "c", "h", "e", ".", "k", "a", "r", "t", "v", "e", "r", "k", "e", "t", ".", "n", "o", "/", "v", "1", "/", "s", "e", "r", "v", "i", "c", "e", "?", "s", "e", "r", "v", "i", "c", "e", "=", "W", "M", "T", "S", "&", "r", "e", "q", "u", "e", "s", "t", "=", "G", "e", "t", "C", "a", "p", "a", "b", "i", "l", "i", "t", "i", "e", "s" >>,
                     layer |-> << "t", "o", "p", "o" >>,
                     style |-> << "d", "e", "f", "a", "u", "l", "t" >>,
                     format |-> << "i", "m", "a", "g", "e", "/", "p", "n", "g" >>,
                     tileMatrixSet |-> << "u", "t", "m", "3", "2", "n" >>,
                     crs |-> << "E", "P", "S", "G", ":", "2", "5", "8", "3", "2" >>],
                    [type |-> << "w", "m", "t", "s" >>,
                     label |-> << "U", "T", "M", " ", "3", "3", "N", " ", "(", "E", "P", "S", "G", ":", "2", "5", "8", "3", "3", ")" >>,
                     capabilities |-> << "h", "t", "t", "p", "s", ":", "/", "/", "c", "a", "c", "h", "e", ".", "k", "a", "r", "t", "v", "e", "r", "k", "e", "t", ".", "n", "o", "/", "v", "1", "/", "s", "e", "r", "v", "i", "c", "e", "?", "s", "e", "r", "v", "i", "c", "e", "=", "W", "M", "T", "S", "&", "r", "e", "q", "u", "e", "s", "t", "=", "G", "e", "t", "C", "a", "p", "a", "b", "i", "l", "i", "t", "i", "e", "s" >>,
                     layer |-> << "t", "o", "p", "o" >>,
                     style |-> << "d", "e", "f", "a", "u", "l", "t" >>,
                     format |-> << "i", "m", "a", "g", "e", "/", "p", "n", "g" >>,
                     tileMatrixSet |-> << "u", "t", "m", "3", "3", "n" >>,
                     crs |-> << "E", "P", "S", "G", ":", "2", "5", "8", "3", "3" >>],
                    [type |-> << "w", "m", "t", "s" >>,
                     label |-> << "U", "T", "M", " ", "3", "5", "N", " ", "(", "E", "P", "S", "G", ":", "2", "5", "8", "3", "5", ")" >>,
                     capabilities |-> << "h", "t", "t", "p", "s", ":", "/", "/", "c", "a", "c", "h", "e", ".", "k", "a", "r", "t", "v", "e", "r", "k", "e", "t", ".", "n", "o", "/", "v", "1", "/", "s", "e", "r", "v", "i", "c", "e", "?", "s", "e", "r", "v", "i", "c", "e", "=", "W", "M", "T", "S", "&", "r", "e", "q", "u", "e", "s", "t", "=", "G", "e", "t", "C", "a", "p", "a", "b", "i", "l", "i", "t", "i", "e", "s" >>,
                     layer |-> << "t", "o", "p", "o" >>,
                     style |-> << "d", "e", "f", "a", "u", "l", "t" >>,
                     format |-> << "i", "m", "a", "g", "e", "/", "p", "n", "g" >>,
                     tileMatrixSet |-> << "u", "t", "m", "3", "5", "n" >>,
                     crs |-> << "E", "P", "S", "G", ":", "2", "5", "8", "3", "5" >>],
                    [type |-> << "w", "m", "t", "s" >>,
                     label |-> << "W", "e", "b", "M", "e", "r", "c", "a", "t", "o", "r", " ", "(", "E", "P", "S", "G", ":", "3", "8", "5", "7", ")" >>,
                     capabilities |-> << "h", "t", "t", "p", "s", ":", "/", "/", "c", "a", "c", "h", "e", ".", "k", "a", "r", "t", "v", "e", "r", "k", "e", "t", ".", "n", "o", "/", "v", "1", "/", "s", "e", "r", "v", "i", "c", "e", "?", "s", "e", "r", "v", "i", "c", "e", "=", "W", "M", "T", "S", "&", "r", "e", "q", "u", "e", "s", "t", "=", "G", "e", "t", "C", "a", "p", "a", "b", "i", "l", "i", "t", "i", "e", "s" >>,
                     layer |-> << "t", "o", "p", "o" >>,
                     style |-> << "d", "e", "f", "a", "u", "l", "t" >>,
                     format |-> << "i", "m", "a", "g", "e", "/", "p", "n", "g" >>,
                     tileMatrixSet |-> << "w", "e", "b", "m", "e", "r", "c", "a", "t", "o", "r" >>,
                     crs |-> << "E", "P", "S", "G", ":", "3", "8", "5", "7" >>]
                >>]],
            [key |-> << "w", "m", "s" >>,
             off |-> [
                label |-> << "W", "M", "S" >>,
                variants |-> <<
                    [type |-> << "w", "m", "s" >>,
                     label |-> << "U", "T", "M", " ", "3", "2", "N", " ", "(", "E", "P", "S", "G", ":", "2", "5", "8", "3", "2", ")" >>,
                     url |-> << "h", "t", "t", "p", "s", ":", "/", "/", "w", "m", "s", ".", "g", "e", "o", "n", "o", "r", "g", "e", ".", "n", "o", "/", "s", "k", "w", "m", "s", "1", "/", "w", "m", "s", ".", "t", "o", "p", "o", "?", "s", "e", "r", "v", "i", "c", "e", "=", "w", "m", "s", "&", "r", "e", "q", "u", "e", "s", "t", "=", "g", "e", "t", "c", "a", "p", "a", "b", "i", "l", "i", "t", "i", "e", "s" >>,
                     layers |-> << "t", "o", "p", "o" >>,
                     styles |-> << >>,
                     format |-> << "i", "m", "a", "g", "e", "/", "p", "n", "g" >>,
                     crs |-> << "E", "P", "S", "G", ":", "2", "5", "8", "3", "2" >>],
                    [type |-> << "w", "m", "s" >>,
                     label |-> << "U", "T", "M", " ", "3", "3", "N", " ", "(", "E", "P", "S", "G", ":", "2", "5", "8", "3", "3", ")" >>,
                     url |-> << "h", "t", "t", "p", "s", ":", "/", "/", "w", "m", "s", ".", "g", "e", "o", "n", "o", "r", "g", "e", ".", "n", "o", "/", "s", "k", "w", "m", "s", "1", "/", "w", "m", "s", ".", "t", "o", "p", "o", "?", "s", "e", "r", "v", "i", "c", "e", "=", "w", "m", "s", "&", "r", "e", "q", "u", "e", "s", "t", "=", "g", "e", "t", "c", "a", "p", "a", "b", "i", "l", "i", "t", "i", "e", "s" >>,
                     layers |-> << "t", "o", "p", "o" >>,
                     styles |-> << >>,
                     format |-> << "i", "m", "a", "g", "e", "/", "p", "n", "g" >>,
                     crs |-> << "E", "P", "S", "G", ":", "2", "5", "8", "3", "3" >>],
                    [type |-> << "w", "m", "s" >>,
                     label |-> << "U", "T", "M", " ", "3", "5", "N", " ", "(", "E", "P", "S", "G", ":", "2", "5", "8", "3", "5", ")" >>,
                     url |-> << "h", "t", "t", "p", "s", ":", "/", "/", "w", "m", "s", ".", "g", "e", "o", "n", "o", "r", "g", "e", ".", "n", "o", "/", "s", "k", "w", "m", "s", "1", "/", "w", "m", "s", ".", "t", "o", "p", "o", "?", "s", "e", "r", "v", "i", "c", "e", "=", "w", "m", "s", "&", "r", "e", "q", "u", "e", "s", "t", "=", "g", "e", "t", "c", "a", "p", "a", "b", "i", "l", "i", "t", "i", "e", "s" >>,
                     layers |-> << "t", "o", "p", "o" >>,
                     styles |-> << >>,
                     format |-> << "i", "m", "a", "g", "e", "/", "p", "n", "g" >>,
                     crs |-> << "E", "P", "S", "G", ":", "2", "5", "8", "3", "5" >>],
                    [type |-> << "w", "m", "s" >>,
                     label |-> << "W", "e", "b", "M", "e", "r", "c", "a", "t", "o", "r", " ", "(", "E", "P", "S", "G", ":", "3", "8", "5", "7", ")" >>,
                     url |-> << "h", "t", "t", "p", "s", ":", "/", "/", "w", "m", "s", ".", "g", "e", "o", "n", "o", "r", "g", "e", ".", "n", "o", "/", "s", "k", "w", "m", "s", "1", "/", "w", "m", "s", ".", "t", "o", "p", "o", "?", "s", "e", "r", "v", "i", "c", "e", "=", "w", "m", "s", "&", "r", "e", "q", "u", "e", "s", "t", "=", "g", "e", "t", "c", "a", "p", "a", "b", "i", "l", "i", "t", "i", "e", "s" >>,
                     layers |-> << "t", "o", "p", "o" >>,
                     styles |-> << >>,
                     format |-> << "i", "m", "a", "g", "e", "/", "p", "n", "g" >>,
                     crs |-> << "E", "P", "S", "G", ":", "3", "8", "5", "7" >>],
                    [type |-> << "w", "m", "s" >>,
                     label |-> << "W", "G", "S", "8", "4", " ", "(", "E", "P", "S", "G", ":", "4", "3", "2", "6", ")" >>,
                     url |-> << "h", "t", "t", "p", "s", ":", "/", "/", "w", "m", "s", ".", "g", "e", "o", "n", "o", "r", "g", "e", ".", "n", "o", "/", "s", "k", "w", "m", "s", "1", "/", "w", "m", "s", ".", "t", "o", "p", "o", "?", "s", "e", "r", "v", "i", "c", "e", "=", "w", "m", "s", "&", "r", "e", "q", "u", "e", "s", "t", "=", "g", "e", "t", "c", "a", "p", "a", "b", "i", "l", "i", "t", "i", "e", "s" >>,
                     layers |-> << "t", "o", "p", "o" >>,
                     styles |-> << >>,
                     format |-> << "i", "m", "a", "g", "e", "/", "p", "n", "g" >>,
                     crs |-> << "E", "P", "S", "G", ":", "4", "3", "2", "6" >>]
                >>]],
            [key |-> << "v", "e", "c", "t", "o", "r", "t", "i", "l", "e" >>,
             off |-> [
                label |-> << "V", "e", "c", "t", "o", "r", " ", "t", "i", "l", "e", "s", " ", "(", "u", "n", "d", "e", "r", " ", "u", "t", "v", "i", "k", "l", "i", "n", "g", ")" >>,
                disabled |-> TRUE,
                disabled_reason |-> << "K", "o", "m", "m", "e", "r", " ", "s", "e", "n", "e", "r", "e" >>,
                variants |-> << >>]]
        >>],
       [
        name |-> << "T", "o", "p", "o", "g", "r", "a", "f", "i", "s", "k", " ", "r", "a", "s", "t", "e", "r", "k", "a", "r", "t" >>,
        description |-> << "R", "a", "s", "t", "e", "r", "k", "a", "r", "t", " ", "e", "l", "l", "e", "r", " ", "\"", "p", "a", "p", "i", "r", "k", "a", "r", "t", "\"", " ", "m", "e", "d", " ", "l", "i", "k", " ", "p", "r", "e", "s", "e", "n", "t", "a", "s", "j", "o", "n", " ", "(", "s", "y", "m", "b", "o", "l", "i", "k", "k", ")", " ", "s", "o", "m", " ", "k", "a", "r", "t", "s", "e", "r", "i", "e", "n", " ", "N", "o", "r", "g", "e", " ", "1", ":", "5", "0", " ", "0", "0", "0", ".", " ", "I", "n", "n", "h", "o", "l", "d", " ", "f", "r", "a", " ", "N", "5", "0", " ", "t", "i", "l", " ", "N", "2", "0", "0", "0", " ", "o", "g", " ", "N", "5", ".", " ", "<", "a", " ", "h", "r", "e", "f", "=", "\"", "h", "t", "t", "p", "s", ":", "/", "/", "k", "a", "r", "t", "k", "a", "t", "a", "l", "o", "g", ".", "g", "e", "o", "n", "o", "r", "g", "e", ".", "n", "o", "/", "m", "e", "t", "a", "d", "a", "t", "a", "/", "t", "o", "p", "o", "g", "r", "a", "f", "i", "s", "k", "-", "n", "o", "r", "g", "e", "s", "k", "a", "r", "t", "-", "w", "m", "t", "s", "-", "-", "c", "a", "c", "h", "e", "/", "8", "f", "3", "8", "1", "1", "8", "0", "-", "1", "a", "4", "7", "-", "4", "4", "5", "3", "-", "b", "e", "e", "7", "-", "9", "a", "3", "d", "6", "4", "8", "4", "3", "e", "f", "a", "\"", ">", "S", "e", " ", "m", "e", "r", " ", "i", "n", "f", "o", "r", "m", "a", "s", "j", "o", "n", "<", "/", "a", ">", "<", "b", "r", ">", "<", "b", "r", ">", "&", "c", "o", "p", "y", ";", " ", "<", "a", " ", "h", "r", "e", "f", "=", "\"", "h", "t", "t", "p", "s", ":", "/", "/", "w", "w", "w", ".", "k", "a", "r", "t", "v", "e", "r", "k", "e", "t", ".", "n", "o", "\"", ">", "K", "a", "r", "t", "v", "e", "r", "k", "e", "t", "<", "/", "a", ">", "." >>,
        preview |-> << "p", "r", "e", "v", "i", "e", "w", "s", "/", "t", "o", "p", "o", "r", "a", "s", "t", "e", "r", ".", "p", "n", "g" >>,
        thumb |-> << "p", "r", "e", "v", "i", "e", "w", "s", "/", "t", "o", "p", "o", "r", "a", "s", "t", "e", "r", "_", "t", "h", "u", "m", "b", ".", "p", "n", "g" >>,
        offerings |-> <<
            [key |-> << "w", "m", "t", "s" >>,
             off |-> [
                label |-> << "W", "M", "T", "S" >>,
                variants |-> <<
                    [type |-> << "w", "m", "t", "s" >>,
                     label |-> << "U", "T", "M", " ", "3", "2", "N", " ", "(", "E", "P", "S", "G", ":", "2", "5", "8", "3", "2", ")" >>,
                     capabilities |-> << "h", "t", "t", "p", "s", ":", "/", "/", "c", "a", "c", "h", "e", ".", "k", "a", "r", "t", "v", "e", "r", "k", "e", "t", ".", "n", "o", "/", "v", "1", "/", "s", "e", "r", "v", "i", "c", "e", "?", "s", "e", "r", "v", "i", "c", "e", "=", "W", "M", "T", "S", "&", "r", "e", "q", "u", "e", "s", "t", "=", "G", "e", "t", "C", "a", "p", "a", "b", "i", "l", "i", "t", "i", "e", "s" >>,
                     layer |-> << "t", "o", "p", "o", "r", "a", "s", "t", "e", "r" >>,
                     style |-> << "d", "e", "f", "a", "u", "l", "t" >>,
                     format |-> << "i", "m", "a", "g", "e", "/", "p", "n", "g" >>,
                     tileMatrixSet |-> << "u", "t", "m", "3", "2", "n" >>,
                     crs |-> << "E", "P", "S", "G", ":", "2", "5", "8", "3", "2" >>],
                    [type |-> << "w", "m", "t", "s" >>,
                     label |-> << "U", "T", "M", " ", "3", "3", "N", " ", "(", "E", "P", "S", "G", ":", "2", "5", "8", "3", "3", ")" >>,
                     capabilities |-> << "h", "t", "t", "p", "s", ":", "/", "/", "c", "a", "c", "h", "e", ".", "k", "a", "r", "t", "v", "e", "r", "k", "e", "t", ".", "n", "o", "/", "v", "1", "/", "s", "e", "r", "v", "i", "c", "e", "?", "s", "e", "r", "v", "i", "c", "e", "=", "W", "M", "T", "S", "&", "r", "e", "q", "u", "e", "s", "t", "=", "G", "e", "t", "C", "a", "p", "a", "b", "i", "l", "i", "t", "i", "e", "s" >>,
                     layer |-> << "t", "o", "p", "o", "r", "a", "s", "t", "e", "r" >>,
                     style |-> << "d", "e", "f", "a", "u", "l", "t" >>,
                     format |-> << "i", "m", "a", "g", "e", "/", "p", "n", "g" >>,
                     tileMatrixSet |-> << "u", "t", "m", "3", "3", "n" >>,
                     crs |-> << "E", "P", "S", "G", ":", "2", "5", "8", "3", "3" >>],
                    [type |-> << "w", "m", "t", "s" >>,
                     label |-> << "U", "T", "M", " ", "3", "5", "N", " ", "(", "E", "P", "S", "G", ":", "2", "5", "8", "3", "5", ")" >>,
                     capabilities |-> << "h", "t", "t", "p", "s", ":", "/", "/", "c", "a", "c", "h", "e", ".", "k", "a", "r", "t", "v", "e", "r", "k", "e", "t", ".", "n", "o", "/", "v", "1", "/", "s", "e", "r", "v", "i", "c", "e", "?", "s", "e", "r", "v", "i", "c", "e", "=", "W", "M", "T", "S", "&", "r", "e", "q", "u", "e", "s", "t", "=", "G", "e", "t", "C", "a", "p", "a", "b", "i", "l", "i", "t", "i", "e", "s" >>,
                     layer |-> << "t", "o", "p", "o", "r", "a", "s", "t", "e", "r" >>,
                     style |-> << "d", "e", "f", "a", "u", "l", "t" >>,
                     format |-> << "i", "m", "a", "g", "e", "/", "p", "n", "g" >>,
                     tileMatrixSet |-> << "u", "t", "m", "3", "5", "n" >>,
                     crs |-> << "E", "P", "S", "G", ":", "2", "5", "8", "3", "5" >>],
                    [type |-> << "w", "m", "t", "s" >>,
                     label |-> << "W", "e", "b", "M", "e", "r", "c", "a", "t", "o", "r", " ", "(", "E", "P", "S", "G", ":", "3", "8", "5", "7", ")" >>,
                     capabilities |-> << "h", "t", "t", "p", "s", ":", "/", "/", "c", "a", "c", "h", "e", ".", "k", "a", "r", "t", "v", "e", "r", "k", "e", "t", ".", "n", "o", "/", "v", "1", "/", "s", "e", "r", "v", "i", "c", "e", "?", "s", "e", "r", "v", "i", "c", "e", "=", "W", "M", "T", "S", "&", "r", "e", "q", "u", "e", "s", "t", "=", "G", "e", "t", "C", "a", "p", "a", "b", "i", "l", "i", "t", "i", "e", "s" >>,
                     layer |-> << "t", "o", "p", "o", "r", "a", "s", "t", "e", "r" >>,
                     style |-> << "d", "e", "f", "a", "u", "l", "t" >>,
                     format |-> << "i", "m", "a", "g", "e", "/", "p", "n", "g" >>,
                     tileMatrixSet |-> << "w", "e", "b", "m", "e", "r", "c", "a", "t", "o", "r" >>,
                     crs |-> << "E", "P", "S", "G", ":", "3", "8", "5", "7" >>]
                >>]],
            [key |-> << "w", "m", "s" >>,
             off |-> [
                label |-> << "W", "M", "S" >>,
                variants |-> <<
                    [type |-> << "w", "m", "s" >>,
                     label |-> << "U", "T", "M", " ", "3", "2", "N", " ", "(", "E", "P", "S", "G", ":", "2", "5", "8", "3", "2", ")" >>,
                     url |-> << "h", "t", "t", "p", "s", ":", "/", "/", "w", "m", "s", ".", "g", "e", "o", "n", "o", "r", "g", "e", ".", "n", "o", "/", "s", "k", "w", "m", "s", "1", "/", "w", "m", "s", ".", "t", "o", "p", "o", "r", "a", "s", "t", "e", "r", "4", "?", "s", "e", "r", "v", "i", "c", "e", "=", "w", "m", "s", "&", "r", "e", "q", "u", "e", "s", "t", "=", "g", "e", "t", "c", "a", "p", "a", "b", "i", "l", "i", "t", "i", "e", "s" >>,
                     layers |-> << "t", "o", "p", "o", "g", "r", "a", "f", "i", "s", "k", "r", "a", "s", "t", "e", "r" >>,
                     styles |-> << >>,
                     format |-> << "i", "m", "a", "g", "e", "/", "p", "n", "g" >>,
                     crs |-> << "E", "P", "S", "G", ":", "2", "5", "8", "3", "2" >>],
                    [type |-> << "w", "m", "s" >>,
                     label |-> << "U", "T", "M", " ", "3", "3", "N", " ", "(", "E", "P", "S", "G", ":", "2", "5", "8", "3", "3", ")" >>,
                     url |-> << "h", "t", "t", "p", "s", ":", "/", "/", "w", "m", "s", ".", "g", "e", "o", "n", "o", "r", "g", "e", ".", "n", "o", "/", "s", "k", "w", "m", "s", "1", "/", "w", "m", "s", ".", "t", "o", "p", "o", "r", "a", "s", "t", "e", "r", "4", "?", "s", "e", "r", "v", "i", "c", "e", "=", "w", "m", "s", "&", "r", "e", "q", "u", "e", "s", "t", "=", "g", "e", "t", "c", "a", "p", "a", "b", "i", "l", "i", "t", "i", "e", "s" >>,
                     layers |-> << "t", "o", "p", "o", "g", "r", "a", "f", "i", "s", "k", "r", "a", "s", "t", "e", "r" >>,
                     styles |-> << >>,
                     format |-> << "i", "m", "a", "g", "e", "/", "p", "n", "g" >>,
                     crs |-> << "E", "P", "S", "G", ":", "2", "5", "8", "3", "3" >>],
                    [type |-> << "w", "m", "s" >>,
                     label |-> << "U", "T", "M", " ", "3", "5", "N", " ", "(", "E", "P", "S", "G", ":", "2", "5", "8", "3", "5", ")" >>,
                     url |-> << "h", "t", "t", "p", "s", ":", "/", "/", "w", "m", "s", ".", "g", "e", "o", "n", "o", "r", "g", "e", ".", "n", "o", "/", "s", "k", "w", "m", "s", "1", "/", "w", "m", "s", ".", "t", "o", "p", "o", "r", "a", "s", "t", "e", "r", "4", "?", "s", "e", "r", "v", "i", "c", "e", "=", "w", "m", "s", "&", "r", "e", "q", "u", "e", "s", "t", "=", "g", "e", "t", "c", "a", "p", "a", "b", "i", "l", "i", "t", "i", "e", "s" >>,
                     layers |-> << "t", "o", "p", "o", "g", "r", "a", "f", "i", "s", "k", "r", "a", "s", "t", "e", "r" >>,
                     styles |-> << >>,
                     format |-> << "i", "m", "a", "g", "e", "/", "p", "n", "g" >>,
                     crs |-> << "E", "P", "S", "G", ":", "2", "5", "8", "3", "5" >>],
                    [type |-> << "w", "m", "s" >>,
                     label |-> << "W", "e", "b", "M", "e", "r", "c", "a", "t", "o", "r", " ", "(", "E", "P", "S", "G", ":", "3", "8", "5", "7", ")" >>,
                     url |-> << "h", "t", "t", "p", "s", ":", "/", "/", "w", "m", "s", ".", "g", "e", "o", "n", "o", "r", "g", "e", ".", "n", "o", "/", "s", "k", "w", "m", "s", "1", "/", "w", "m", "s", ".", "t", "o", "p", "o", "r", "a", "s", "t", "e", "r", "4", "?", "s", "e", "r", "v", "i", "c", "e", "=", "w", "m", "s", "&", "r", "e", "q", "u", "e", "s", "t", "=", "g", "e", "t", "c", "a", "p", "a", "b", "i", "l", "i", "t", "i", "e", "s" >>,
                     layers |-> << "t", "o", "p", "o", "g", "r", "a", "f", "i", "s", "k", "r", "a", "s", "t", "e", "r" >>,
                     styles |-> << >>,
                     format |-> << "i", "m", "a", "g", "e", "/", "p", "n", "g" >>,
                     crs |-> << "E", "P", "S", "G", ":", "3", "8", "5", "7" >>],
                    [type |-> << "w", "m", "s" >>,
                     label |-> << "W", "G", "S", "8", "4", " ", "(", "E", "P", "S", "G", ":", "4", "3", "2", "6", ")" >>,
                     url |-> << "h", "t", "t", "p", "s", ":", "/", "/", "w", "m", "s", ".", "g", "e", "o", "n", "o", "r", "g", "e", ".", "n", "o", "/", "s", "k", "w", "m", "s", "1", "/", "w", "m", "s", ".", "t", "o", "p", "o", "r", "a", "s", "t", "e", "r", "4", "?", "s", "e", "r", "v", "i", "c", "e", "=", "w", "m", "s", "&", "r", "e", "q", "u", "e", "s", "t", "=", "g", "e", "t", "c", "a", "p", "a", "b", "i", "l", "i", "t", "i", "e", "s" >>,
                     layers |-> << "t", "o", "p", "o", "g", "r", "a", "f", "i", "s", "k", "r", "a", "s", "t", "e", "r" >>,
                     styles |-> << >>,
                     format |-> << "i", "m", "a", "g", "e", "/", "p", "n", "g" >>,
                     crs |-> << "E", "P", "S", "G", ":", "4", "3", "2", "6" >>]
                >>]]
        >>],
       [
        name |-> << "Ø", "k", "o", "n", "o", "m", "i", "s", "k", " ", "k", "a", "r", "t", "v", "e", "r", "k" >>,
        description |-> << "I", "n", "f", "o", "r", "m", "a", "s", "j", "o", "n", " ", "t", "i", "l", "s", "v", "a", "r", "e", "n", "d", "e", " ", "d", "i", "g", "i", "t", "a", "l", "t", " ", "ø", "k", "o", "n", "o", "m", "i", "s", "k", " ", "k", "a", "r", "t", "v", "e", "r", "k", " ", "(", "Ø", "K", ")", ".", " ", "N", "5", " ", "e", "r", " ", "b", "a", "s", "e", "r", "t", " ", "p", "å", " ", "u", "t", "v", "a", "l", "g", "t", "e", ",", " ", "g", "e", "n", "e", "r", "a", "l", "i", "s", "e", "r", "t", "e", " ", "F", "K", "B", "-", "d", "a", "t", "a", ".", " ", "<", "a", " ", "h", "r", "e", "f", "=", "\"", "h", "t", "t", "p", "s", ":", "/", "/", "k", "a", "r", "t", "k", "a", "t", "a", "l", "o", "g", ".", "g", "e", "o", "n", "o", "r", "g", "e", ".", "n", "o", "/", "m", "e", "t", "a", "d", "a", "t", "a", "/", "n", "5", "r", "a", "s", "t", "e", "r", "2", "-", "w", "m", "s", "/", "7", "9", "e", "a", "9", "7", "6", "1", "-", "1", "a", "c", "9", "-", "4", "7", "8", "0", "-", "a", "0", "6", "5", "-", "e", "4", "7", "3", "8", "8", "3", "5", "6", "4", "3", "e", "\"", ">", "S", "e", " ", "m", "e", "r", " ", "i", "n", "f", "o", "r", "m", "a", "s", "j", "o", "n", "<", "/", "a", ">", "<", "b", "r", ">", "<", "b", "r", ">", "&", "c", "o", "p", "y", ";", " ", "<", "a", " ", "h", "r", "e", "f", "=", "\"", "h", "t", "t", "p", "s", ":", "/", "/", "w", "w", "w", ".", "k", "a", "r", "t", "v", "e", "r", "k", "e", "t", ".", "n", "o", "\"", ">", "K", "a", "r", "t", "v", "e", "r", "k", "e", "t", "<", "/", "a", ">", "." >>,
        preview |-> << "p", "r", "e", "v", "i", "e", "w", "s", "/", "e", "c", "o", "n", "o", "m", "i", "c", ".", "p", "n", "g" >>,
        thumb |-> << "p", "r", "e", "v", "i", "e", "w", "s", "/", "e", "c", "o", "n", "o", "m", "i", "c", "_", "t", "h", "u", "m", "b", ".", "p", "n", "g" >>,
        offerings |-> <<
            [key |-> << "w", "m", "s" >>,
             off |-> [
                label |-> << "W", "M", "S" >>,
                variants |-> <<
                    [type |-> << "w", "m", "s" >>,
                     label |-> << "U", "T", "M", " ", "3", "2", "N", " ", "(", "E", "P", "S", "G", ":", "2", "5", "8", "3", "2", ")" >>,
                     url |-> << "h", "t", "t", "p", "s", ":", "/", "/", "w", "m", "s", ".", "g", "e", "o", "n", "o", "r", "g", "e", ".", "n", "o", "/", "s", "k", "w", "m", "s", "1", "/", "w", "m", "s", ".", "n", "5", "r", "a", "s", "t", "e", "r", "2", "?", "s", "e", "r", "v", "i", "c", "e", "=", "w", "m", "s", "&", "r", "e", "q", "u", "e", "s", "t", "=", "g", "e", "t", "c", "a", "p", "a", "b", "i", "l", "i", "t", "i", "e", "s" >>,
                     layers |-> << "n", "5", "R", "a", "s", "t", "e", "r", "_", "W", "M", "S" >>,
                     styles |-> << >>,
                     format |-> << "i", "m", "a", "g", "e", "/", "p", "n", "g" >>,
                     crs |-> << "E", "P", "S", "G", ":", "2", "5", "8", "3", "2" >>],
                    [type |-> << "w", "m", "s" >>,
                     label |-> << "U", "T", "M", " ", "3", "3", "N", " ", "(", "E", "P", "S", "G", ":", "2", "5", "8", "3", "3", ")" >>,
                     url |-> << "h", "t", "t", "p", "s", ":", "/", "/", "w", "m", "s", ".", "g", "e", "o", "n", "o", "r", "g", "e", ".", "n", "o", "/", "s", "k", "w", "m", "s", "1", "/", "w", "m", "s", ".", "n", "5", "r", "a", "s", "t", "e", "r", "2", "?", "s", "e", "r", "v", "i", "c", "e", "=", "w", "m", "s", "&", "r", "e", "q", "u", "e", "s", "t", "=", "g", "e", "t", "c", "a", "p", "a", "b", "i", "l", "i", "t", "i", "e", "s" >>,
                     layers |-> << "n", "5", "R", "a", "s", "t", "e", "r", "_", "W", "M", "S" >>,
                     styles |-> << >>,
                     format |-> << "i", "m", "a", "g", "e", "/", "p", "n", "g" >>,
                     crs |-> << "E", "P", "S", "G", ":", "2", "5", "8", "3", "3" >>],
                    [type |-> << "w", "m", "s" >>,
                     label |-> << "U", "T", "M", " ", "3", "5", "N", " ", "(", "E", "P", "S", "G", ":", "2", "5", "8", "3", "5", ")" >>,
                     url |-> << "h", "t", "t", "p", "s", ":", "/", "/", "w", "m", "s", ".", "g", "e", "o", "n", "o", "r", "g", "e", ".", "n", "o", "/", "s", "k", "w", "m", "s", "1", "/", "w", "m", "s", ".", "n", "5", "r", "a", "s", "t", "e", "r", "2", "?", "s", "e", "r", "v", "i", "c", "e", "=", "w", "m", "s", "&", "r", "e", "q", "u", "e", "s", "t", "=", "g", "e", "t", "c", "a", "p", "a", "b", "i", "l", "i", "t", "i", "e", "s" >>,
                     layers |-> << "n", "5", "R", "a", "s", "t", "e", "r", "_", "W", "M", "S" >>,
                     styles |-> << >>,
                     format |-> << "i", "m", "a", "g", "e", "/", "p", "n", "g" >>,
                     crs |-> << "E", "P", "S", "G", ":", "2", "5", "8", "3", "5" >>],
                    [type |-> << "w", "m", "s" >>,
                     label |-> << "W", "e", "b", "M", "e", "r", "c", "a", "t", "o", "r", " ", "(", "E", "P", "S", "G", ":", "3", "8", "5", "7", ")" >>,
                     url |-> << "h", "t", "t", "p", "s", ":", "/", "/", "w", "m", "s", ".", "g", "e", "o", "n", "o", "r", "g", "e", ".", "n", "o", "/", "s", "k", "w", "m", "s", "1", "/", "w", "m", "s", ".", "n", "5", "r", "a", "s", "t", "e", "r", "2", "?", "s", "e", "r", "v", "i", "c", "e", "=", "w", "m", "s", "&", "r", "e", "q", "u", "e", "s", "t", "=", "g", "e", "t", "c", "a", "p", "a", "b", "i", "l", "i", "t", "i", "e", "s" >>,
                     layers |-> << "n", "5", "R", "a", "s", "t", "e", "r", "_", "W", "M", "S" >>,
                     styles |-> << >>,
                     format |-> << "i", "m", "a", "g", "e", "/", "p", "n", "g" >>,
                     crs |-> << "E", "P", "S", "G", ":", "3", "8", "5", "7" >>],
                    [type |-> << "w", "m", "s" >>,
                     label |-> << "W", "G", "S", "8", "4", " ", "(", "E", "P", "S", "G", ":", "4", "3", "2", "6", ")" >>,
                     url |-> << "h", "t", "t", "p", "s", ":", "/", "/", "w", "m", "s", ".", "g", "e", "o", "n", "o", "r", "g", "e", ".", "n", "o", "/", "s", "k", "w", "m", "s", "1", "/", "w", "m", "s", ".", "n", "5", "r", "a", "s", "t", "e", "r", "2", "?", "s", "e", "r", "v", "i", "c", "e", "=", "w", "m", "s", "&", "r", "e", "q", "u", "e", "s", "t", "=", "g", "e", "t", "c", "a", "p", "a", "b", "i", "l", "i", "t", "i", "e", "s" >>,
                     layers |-> << "n", "5", "R", "a", "s", "t", "e", "r", "_", "W", "M", "S" >>,
                     styles |-> << >>,
                     format |-> << "i", "m", "a", "g", "e", "/", "p", "n", "g" >>,
                     crs |-> << "E", "P", "S", "G", ":", "4", "3", "2", "6" >>]
                >>]]
        >>] >>

(***************************************************************************)
(* The plugin on its built-in catalog: the dialog without the search field *)
(***************************************************************************)
InitBuiltin ==
    /\ services = SERVICES
    /\ hasVectorTile \in BOOLEAN
    /\ groups = 0
    /\ IdleInit
    /\ inp = << >>
    /\ outp = << >>

NextBuiltin ==
    \/ RunOpen
    \/ \E i \in 1..Len(items) : _on_service_changed(i)
    \/ \E i \in 1..Len(typeButtons) : _on_type_clicked(i)
    \/ \E i \in 1..Len(variantButtons) : _on_variant_clicked(i)
    \/ Accept

SpecBuiltin == InitBuiltin /\ [][NextBuiltin]_vars

\* C30: on the built-in catalog every accepted selection has a variant type
\* that run dispatches and every field its builder requires, so the run
\* reaches the layer constructor and fails, if it fails, only because the
\* host reports the layer invalid.
C30_BuiltinSelectionsBuildable ==
    (services = SERVICES /\ Built) =>
        /\ ChosenType \in {<< "w", "m", "t", "s" >>, << "x", "y", "z" >>, << "w", "m", "s" >>, << "v", "e", "c", "t", "o", "r", "t", "i", "l", "e" >>, << "v", "t" >>, << "m", "v", "t" >>, << "a", "r", "c", "g", "i", "s", "_", "v", "t" >>}
        /\ ~C7_MissingRequired
        /\ ChosenType = << "w", "m", "s" >> => (Present("layers") \/ Present("layer"))
        /\ Len(ctorCalls) = 1
        /\ \A i \in 1..Len(errorDialogs) :
              /\ errorDialogs[i].exc = "RuntimeError"
              /\ errorDialogs[i].text # "Ukjent variant-type."
              /\ errorDialogs[i].uri = << ctorCalls[1].uri >>

\* C30 witness: the last variant of the last service of the built-in catalog
\* was accepted and its layer was added
C30_Witness ==
    /\ services = SERVICES
    /\ Built
    /\ chosen[1].service = 10
    /\ chosen[1].type_key = << "w", "m", "s" >>
    /\ ChosenVariant = SERVICES[10].offerings[1].off.variants[5]
    /\ outcome = "added"
    /\ mapLayers = {runs}

====
